---- MODULE Spec2Model ----
(***************************************************************************)
(* Competitor Pricing Radar: the background worker (worker/index.js, the   *)
(* version with the 24-hour cooldown and the change-hash idempotency       *)
(* gate), its detector (worker/detector.js) and its differ                 *)
(* (worker/diff.js).                                                       *)
(*                                                                         *)
(* Time is in milliseconds, as Date.now() gives it.  Texts are strings.    *)
(* A confidence score is kept in hundredths (0.6 is 60).                   *)
(***************************************************************************)
EXTENDS Integers, Sequences, FiniteSets, TLC

VARIABLES
    now,         \* Date.now()
    nextCron,    \* the next firing time of cron.schedule("0 2 * * *")
    monitors,    \* table monitors: id -> the change-tracking columns of the row
    snapshots,   \* table snapshots, in insertion order; the id is the index
    alerts,      \* table alerts, in insertion order; the id is the index
    run,         \* the runMonitoring() invocation and the locals of processMonitor
    steps,       \* history: what the current processMonitor call has done so far
    processed,   \* history: ids handed to processMonitor in the current cycle
    outbox,      \* history: every resend.emails.send call
    retry,       \* history: the last fetch of the target's page failed
    startups,    \* number of runs made at process start (RUN_ON_START=true)
    faults,      \* number of failures the environment has produced so far
    parked,      \* a second runMonitoring() invocation, waiting at an await
    owners,      \* table monitors: id -> the columns user_email and url of the row
    posts,       \* the POST /api/submit requests and where their handlers are
    probe        \* a call of worker/diff.js on its own: the arguments and the result

vars == <<now, nextCron, monitors, snapshots, alerts, run, steps, processed,
          outbox, retry, startups, faults, parked, owners, posts, probe>>

----------------------------------------------------------------------------
(* Bounds of the model *)

MaxDays == 3
FlapDays == 5
MaxFaults == 1

(* Program constants *)

TWENTY_FOUR_HOURS_MS == 24 * 60 * 60 * 1000
CronPeriodMs == 24 * 60 * 60 * 1000
CronFirstMs == 2 * 60 * 60 * 1000
SleepMs == 2000
AxiosTimeoutMs == 15000
ConfidenceGate == 60

IdleStepMs == 24 * 60 * 60 * 1000
FetchMs == 1000

NoTime == -1
NoHash == ""
NoType == "null"

----------------------------------------------------------------------------
(* Strings *)

Chars(s) == [i \in 1..Len(s) |-> SubSeq(s, i, i)]

IsSpace(c) == c \in {" ", "\t", "\n", "\r"}

IsDigit(c) == c \in {"0", "1", "2", "3", "4", "5", "6", "7", "8", "9"}

Upper == <<"A", "B", "C", "D", "E", "F", "G", "H", "I", "J", "K", "L", "M",
           "N", "O", "P", "Q", "R", "S", "T", "U", "V", "W", "X", "Y", "Z">>
Lower == <<"a", "b", "c", "d", "e", "f", "g", "h", "i", "j", "k", "l", "m",
           "n", "o", "p", "q", "r", "s", "t", "u", "v", "w", "x", "y", "z">>

ToLower(c) ==
    IF \E i \in 1..26 : Upper[i] = c
    THEN Lower[CHOOSE i \in 1..26 : Upper[i] = c]
    ELSE c

RECURSIVE TrimStart(_)
TrimStart(s) ==
    IF Len(s) > 0 /\ IsSpace(SubSeq(s, 1, 1))
    THEN TrimStart(SubSeq(s, 2, Len(s)))
    ELSE s

RECURSIVE TrimEnd(_)
TrimEnd(s) ==
    IF Len(s) > 0 /\ IsSpace(SubSeq(s, Len(s), Len(s)))
    THEN TrimEnd(SubSeq(s, 1, Len(s) - 1))
    ELSE s

\* String.prototype.trim
Trim(s) == TrimEnd(TrimStart(s))

\* String.prototype.split("\n")
RECURSIVE SplitLines(_)
SplitLines(s) ==
    IF \E i \in 1..Len(s) : SubSeq(s, i, i) = "\n"
    THEN LET i == CHOOSE j \in 1..Len(s) :
                     /\ SubSeq(s, j, j) = "\n"
                     /\ \A k \in 1..(j - 1) : SubSeq(s, k, k) # "\n"
         IN  <<SubSeq(s, 1, i - 1)>> \o SplitLines(SubSeq(s, i + 1, Len(s)))
    ELSE <<s>>

\* Array.prototype.join("\n")
RECURSIVE JoinLines(_)
JoinLines(ls) ==
    IF ls = <<>> THEN ""
    ELSE IF Len(ls) = 1 THEN ls[1]
    ELSE ls[1] \o "\n" \o JoinLines(Tail(ls))

\* String.prototype.replace(/\n{3,}/g, "\n\n") on the characters lo..hi of s: of a
\* run of newlines the first two stay
RECURSIVE CollapseRange(_, _, _)
CollapseRange(s, lo, hi) ==
    IF lo > hi THEN ""
    ELSE IF lo = hi
         THEN IF /\ lo >= 3
                 /\ SubSeq(s, lo - 2, lo) = "\n\n\n"
              THEN "" ELSE SubSeq(s, lo, lo)
    ELSE CollapseRange(s, lo, (lo + hi) \div 2) \o CollapseRange(s, (lo + hi) \div 2 + 1, hi)

CollapseNewlines(s) == CollapseRange(s, 1, Len(s))

----------------------------------------------------------------------------
(* Regular expressions of worker/diff.js: a pattern is a sequence of atoms,  *)
(* a lower-case character, "\\s+", "\\s*" or "\\d"; matching ignores case.  *)

WsPlus == "\\s+"
WsStar == "\\s*"
Digit == "\\d"
Digit4 == <<Digit, Digit, Digit, Digit>>

\* pat[p..] matches a prefix of s[i..]
RECURSIVE MatchHere(_, _, _, _)
MatchHere(pat, p, s, i) ==
    IF p > Len(pat) THEN TRUE
    ELSE LET a == pat[p]
             c == IF i <= Len(s) THEN SubSeq(s, i, i) ELSE ""
         IN  IF a = WsPlus
             THEN /\ i <= Len(s)
                  /\ IsSpace(c)
                  /\ (MatchHere(pat, p, s, i + 1) \/ MatchHere(pat, p + 1, s, i + 1))
             ELSE IF a = WsStar
             THEN \/ MatchHere(pat, p + 1, s, i)
                  \/ (i <= Len(s) /\ IsSpace(c) /\ MatchHere(pat, p, s, i + 1))
             ELSE IF a = Digit
             THEN i <= Len(s) /\ IsDigit(c) /\ MatchHere(pat, p + 1, s, i + 1)
             ELSE i <= Len(s) /\ ToLower(c) = a /\ MatchHere(pat, p + 1, s, i + 1)

\* RegExp.prototype.test, for a pattern without anchors
RegexTest(pat, s) == \E i \in 1..(Len(s) + 1) : MatchHere(pat, 1, s, i)

NOISE_PATTERNS == <<
    \* tracking / analytics tokens
    { Chars("utm_source"), Chars("utm_medium"), Chars("utm_campaign"),
      Chars("ga("), Chars("gtag("), Chars("fbq("), Chars("_gaq"),
      Chars("analytics.js") },
    \* timestamp / date lines
    { Chars("last") \o <<WsPlus>> \o Chars("updated"),
      Chars("©") \o <<WsStar>> \o Digit4,
      Chars("copyright") \o <<WsPlus>> \o Digit4,
      Digit4 \o <<WsPlus>> \o Chars("all") \o <<WsPlus>> \o Chars("rights") },
    \* cookie / GDPR banners
    { Chars("cookie"), Chars("gdpr"),
      Chars("we") \o <<WsPlus>> \o Chars("use") \o <<WsPlus>> \o Chars("cookies"),
      Chars("accept") \o <<WsPlus>> \o Chars("all") },
    \* generic footer phrases
    { Chars("privacy") \o <<WsPlus>> \o Chars("policy"),
      Chars("terms") \o <<WsPlus>> \o Chars("of") \o <<WsPlus>> \o Chars("service"),
      Chars("terms") \o <<WsPlus>> \o Chars("&") \o <<WsPlus>> \o Chars("conditions"),
      Chars("contact") \o <<WsPlus>> \o Chars("us"),
      Chars("sitemap") },
    \* social share buttons
    { Chars("follow") \o <<WsPlus>> \o Chars("us"),
      Chars("share") \o <<WsPlus>> \o Chars("on"),
      Chars("tweet") \o <<WsPlus>> \o Chars("this") } >>

\* the length test on the line as it came
isNoiseLine_untrimmed(line) ==
    IF Trim(line) = "" \/ Len(line) < 3 THEN TRUE
    ELSE \E k \in 1..Len(NOISE_PATTERNS) :
             \E alt \in NOISE_PATTERNS[k] : RegexTest(alt, Trim(line))

\* no test of the length
isNoiseLine_anylength(line) ==
    IF Trim(line) = "" THEN TRUE
    ELSE \E k \in 1..Len(NOISE_PATTERNS) :
             \E alt \in NOISE_PATTERNS[k] : RegexTest(alt, Trim(line))

isNoiseLine(line) ==
    LET trimmed == Trim(line)
    IN  IF trimmed = "" \/ Len(trimmed) < 3 THEN TRUE
        ELSE \E k \in 1..Len(NOISE_PATTERNS) :
                 \E alt \in NOISE_PATTERNS[k] : RegexTest(alt, trimmed)

stripNoise(text) ==
    Trim(CollapseNewlines(JoinLines(
        SelectSeq(SplitLines(text), LAMBDA line : ~isNoiseLine(line)))))

----------------------------------------------------------------------------
(* Diff.diffLines(a, b, {ignoreWhitespace: true}) of the diff package: the  *)
(* lines are compared trimmed; the edit script is a shortest one, a removal *)
(* coming before an insertion; consecutive lines of one kind form one part. *)

\* the row of the table of longest common subsequences for the line x, from
\* the row below: entry j is for the lines b[j..], the last entry is 0
LcsRow(x, b, below) ==
    <<>> \o [j \in 1..(Len(b) + 1) |->
               LET here == {1 + below[k + 1] : k \in {k \in j..Len(b) : Trim(x) = Trim(b[k])}}
                           \cup {below[j]}
               IN  CHOOSE v \in here : \A w \in here : w <= v]

\* the rows for a[i + 1..], a[i + 2..], ... put before the rows given
RECURSIVE LcsTable(_, _, _, _)
LcsTable(a, b, i, rows) ==
    IF i = 0 \/ rows = <<>> THEN rows
    ELSE LcsTable(a, b, i - 1, <<LcsRow(a[i], b, rows[1])>> \o rows)

\* the length of a longest common subsequence of the trimmed lines
LcsLen(a, b) == LcsTable(a, b, Len(a), <<[j \in 1..(Len(b) + 1) |-> 0]>>)[1][1]

\* the edit script from line i of a and line j of b on, t being the table: the
\* lines that go, then the lines that come, then the lines that stay
RECURSIVE Walk(_, _, _, _, _)
Walk(a, b, t, i, j) ==
    IF i > Len(a) THEN [k \in 1..(Len(b) - j + 1) |-> [op |-> "+", line |-> b[j + k - 1]]]
    ELSE IF j > Len(b) THEN [k \in 1..(Len(a) - i + 1) |-> [op |-> "-", line |-> a[i + k - 1]]]
    ELSE LET in(p, q) == p <= Len(a) /\ q <= Len(b)
             same(p, q) == in(p, q) /\ Trim(a[p]) = Trim(b[q])
             goes(p, q) == in(p, q) /\ ~same(p, q) /\ t[p + 1][q] >= t[p][q + 1]
             comes(p, q) == in(p, q) /\ ~same(p, q) /\ t[p + 1][q] < t[p][q + 1]
             r == CHOOSE n \in 0..(Len(a) - i + 1) :
                      /\ \A m \in 0..(n - 1) : goes(i + m, j)
                      /\ ~goes(i + n, j)
             c == CHOOSE n \in 0..(Len(b) - j + 1) :
                      /\ \A m \in 0..(n - 1) : comes(i + r, j + m)
                      /\ ~comes(i + r, j + n)
             e == CHOOSE n \in 0..(Len(a) - i + 1) :
                      /\ \A m \in 0..(n - 1) : same(i + r + m, j + c + m)
                      /\ ~same(i + r + n, j + c + n)
         IN  [k \in 1..r |-> [op |-> "-", line |-> a[i + k - 1]]]
             \o [k \in 1..c |-> [op |-> "+", line |-> b[j + k - 1]]]
             \o [k \in 1..e |-> [op |-> "=", line |-> b[j + c + k - 1]]]
             \o Walk(a, b, t, i + r + e, j + c + e)

\* the edit script: a sequence of [op |-> "=" | "-" | "+", line |-> ...]
EditScript(a, b) ==
    Walk(a, b, LcsTable(a, b, Len(a), <<[j \in 1..(Len(b) + 1) |-> 0]>>), 1, 1)

\* within a hunk the removed lines come first, then the added ones
HunkOrder(es) ==
    [k \in 1..Len(es) |->
        IF es[k].op = "=" THEN es[k]
        ELSE LET s == CHOOSE n \in 1..k :
                          /\ \A m \in n..k : es[m].op # "="
                          /\ n = 1 \/ es[n - 1].op = "="
                 e == CHOOSE n \in k..Len(es) :
                          /\ \A m \in k..n : es[m].op # "="
                          /\ n = Len(es) \/ es[n + 1].op = "="
                 hunk == SubSeq(es, s, e)
             IN  (SelectSeq(hunk, LAMBDA x : x.op = "-")
                  \o SelectSeq(hunk, LAMBDA x : x.op = "+"))[k - s + 1]]

\* consecutive lines of one kind are merged into one part, each line with its newline
MergeParts(es) ==
    LET first(k) == k = 1 \/ es[k].op # es[k - 1].op
        starts == {k \in 1..Len(es) : first(k)}
        \* the n-th part starts at start(n)
        start(n) == CHOOSE k \in starts : Cardinality({m \in starts : m <= k}) = n
        end(k) == CHOOSE n \in k..Len(es) :
                      /\ \A m \in k..n : es[m].op = es[k].op
                      /\ n = Len(es) \/ es[n + 1].op # es[k].op
    IN  [n \in 1..Cardinality(starts) |->
            [op |-> es[start(n)].op,
             value |-> JoinLines([m \in 1..(end(start(n)) - start(n) + 1) |->
                                     es[start(n) + m - 1].line]) \o "\n"]]

diffLines(oldText, newText) ==
    LET a == IF oldText = "" THEN <<>> ELSE SplitLines(oldText)
        b == IF newText = "" THEN <<>> ELSE SplitLines(newText)
    IN  MergeParts(HunkOrder(EditScript(a, b)))

\* the new text compared as it came
compareSnapshots_rawnew(oldText, newText) ==
    LET changes == diffLines(stripNoise(oldText), newText)
        kept(kind) == SelectSeq(changes, LAMBDA part :
                          /\ part.op = kind
                          /\ Trim(part.value) # ""
                          /\ Len(Trim(part.value)) >= 3)
        added == [i \in 1..Len(kept("+")) |-> Trim(kept("+")[i].value)]
        removed == [i \in 1..Len(kept("-")) |-> Trim(kept("-")[i].value)]
    IN  [added |-> added, removed |-> removed,
         hasChanges |-> (Len(added) > 0 \/ Len(removed) > 0)]

compareSnapshots(oldText, newText) ==
    LET changes == diffLines(stripNoise(oldText), stripNoise(newText))
        kept(kind) == SelectSeq(changes, LAMBDA part :
                          /\ part.op = kind
                          /\ Trim(part.value) # ""
                          /\ Len(Trim(part.value)) >= 3)
        added == [i \in 1..Len(kept("+")) |-> Trim(kept("+")[i].value)]
        removed == [i \in 1..Len(kept("-")) |-> Trim(kept("-")[i].value)]
    IN  [added |-> added, removed |-> removed,
         hasChanges |-> (Len(added) > 0 \/ Len(removed) > 0)]

\* String.prototype.substring(0, n)
Substring(str, n) == SubSeq(str, 1, IF n < 0 THEN 0 ELSE IF Len(str) < n THEN Len(str) ELSE n)

SliceLimit == 10

DefaultMaxChars == 3000

\* the listing without the slices
buildDiffContext_all(oldText, newText, maxChars) ==
    LET c == compareSnapshots(oldText, newText)
    IN  IF ~c.hasChanges THEN [null |-> TRUE, text |-> ""]
        ELSE [null |-> FALSE,
              text |-> Substring(
                  (IF Len(c.removed) > 0
                   THEN "REMOVED:\n" \o JoinLines(c.removed) \o "\n\n" ELSE "")
                  \o (IF Len(c.added) > 0
                      THEN "ADDED:\n" \o JoinLines(c.added) ELSE ""), maxChars)]

\* the result is [null |-> TRUE] for null, else the string under text
buildDiffContext(oldText, newText, maxChars) ==
    LET c == compareSnapshots(oldText, newText)
        \* Array.prototype.slice(0, 10)
        slice(xs) == SubSeq(xs, 1, IF Len(xs) < SliceLimit THEN Len(xs) ELSE SliceLimit)
        context == (IF Len(c.removed) > 0
                    THEN "REMOVED:\n" \o JoinLines(slice(c.removed)) \o "\n\n"
                    ELSE "")
                   \o (IF Len(c.added) > 0
                       THEN "ADDED:\n" \o JoinLines(slice(c.added))
                       ELSE "")
    IN  IF ~c.hasChanges THEN [null |-> TRUE, text |-> ""]
        ELSE [null |-> FALSE, text |-> Substring(context, maxChars)]

----------------------------------------------------------------------------
(* worker/scraper.js *)

Null == <<>>

\* String.prototype.replace(/\s+/g, " ")
RECURSIVE CollapseWhitespace(_)
CollapseWhitespace(s) ==
    IF \A i \in 1..Len(s) : ~IsSpace(SubSeq(s, i, i)) THEN s
    ELSE LET \* the characters before the first run of whitespace
             m == (CHOOSE j \in 1..Len(s) :
                       /\ IsSpace(SubSeq(s, j, j))
                       /\ \A k \in 1..(j - 1) : ~IsSpace(SubSeq(s, k, k))) - 1
         IN  SubSeq(s, 1, m) \o " " \o CollapseWhitespace(TrimStart(SubSeq(s, m + 1, Len(s))))

ScrapeLimit == 8000

\* a clean up that leaves the line breaks
ExtractText_lines(elText) == Trim(CollapseNewlines(elText))

\* what scrapePage makes of the text of the selected element
ExtractText(elText) ==
    LET text == Trim(CollapseNewlines(CollapseWhitespace(elText)))
    IN  IF Len(text) > ScrapeLimit
        THEN SubSeq(text, 1, ScrapeLimit) \o "... [truncated]"
        ELSE text

\* the pages a competitor may serve: the text of the pricing element
PageA == "Pro\n $29"
PageB == "Pro\n $39"
PageBlank == " \n "
PageBodies == {PageA, PageB, PageBlank}

\* the results of scrapePage(url): null when axios or cheerio throws, else the text
ScrapeResults ==
    {[ok |-> FALSE, text |-> ""]} \cup {[ok |-> TRUE, text |-> ExtractText(b)] : b \in PageBodies}

\* a test that lets everything through
ScrapeFailed_never(r) == FALSE

\* if (!newContent)
ScrapeFailed(r) == ~r.ok \/ r.text = ""

\* how long the axios request takes, at most the timeout
FetchDurations == {d \in {FetchMs} : d <= AxiosTimeoutMs}

----------------------------------------------------------------------------
(* worker/detector.js *)

NaN == -2147483647

validTypes == {"price_change", "tier_change", "feature_change", "copy_change"}

\* a member of a parsed JSON object: absent, null, a string or a number (in hundredths)
Absent == [t |-> "absent", s |-> "", n |-> 0]
JNull == [t |-> "null", s |-> "", n |-> 0]
JStr(str) == [t |-> "str", s |-> str, n |-> 0]
JNum(num) == [t |-> "num", s |-> "", n |-> num]

\* the value of the digits of s from position i on, and where they end
RECURSIVE DigitsEnd(_, _)
DigitsEnd(s, i) ==
    IF i <= Len(s) /\ IsDigit(SubSeq(s, i, i)) THEN DigitsEnd(s, i + 1) ELSE i

DigitVal(c) == CHOOSE d \in 0..9 : <<"0", "1", "2", "3", "4", "5", "6", "7", "8", "9">>[d + 1] = c

RECURSIVE DigitsVal(_, _, _)
DigitsVal(s, i, j) ==
    IF j <= i THEN 0 ELSE DigitsVal(s, i, j - 1) * 10 + DigitVal(SubSeq(s, j - 1, j - 1))

\* parseFloat of a string, in hundredths: the longest numeric prefix, else NaN
ParseFloatStr(str) ==
    LET s == TrimStart(str)
        neg == Len(s) > 0 /\ SubSeq(s, 1, 1) = "-"
        b == IF Len(s) > 0 /\ SubSeq(s, 1, 1) \in {"-", "+"} THEN 2 ELSE 1
        e == DigitsEnd(s, b)
        hasDot == e <= Len(s) /\ SubSeq(s, e, e) = "."
        fe == IF hasDot THEN DigitsEnd(s, e + 1) ELSE e
        d1 == IF hasDot /\ fe > e + 1 THEN DigitVal(SubSeq(s, e + 1, e + 1)) ELSE 0
        d2 == IF hasDot /\ fe > e + 2 THEN DigitVal(SubSeq(s, e + 2, e + 2)) ELSE 0
        mag == DigitsVal(s, b, e) * 100 + d1 * 10 + d2
    IN  IF e = b /\ ~(hasDot /\ fe > e + 1) THEN NaN
        ELSE IF neg THEN 0 - mag ELSE mag

\* parseFloat(parsed.confidence_score ?? 0)
ParseConfidence(v) ==
    IF v.t \in {"absent", "null"} THEN 0
    ELSE IF v.t = "num" THEN v.n
    ELSE ParseFloatStr(v.s)

\* the < of JavaScript numbers: false when an operand is NaN
JsLess(a, b) == a # NaN /\ b # NaN /\ a < b

\* x || fallback, for a member that is absent, null or a string
OrElse(v, fallback) == IF v.t = "str" /\ v.s # "" THEN v.s ELSE fallback

\* What the Gemini call gives: it throws, or it answers a text.  The text is
\* kept by its shape: empty, the sentinel, something JSON.parse rejects, or a
\* JSON value (null, a scalar or array, or an object), with or without fences.
ServiceThrows == [threw |-> TRUE, fenced |-> FALSE, shape |-> "none", obj |-> Null]
ServiceText(fenced, shape, obj) == [threw |-> FALSE, fenced |-> fenced, shape |-> shape, obj |-> obj]

Obj(type, summary, old, new, plan, conf) ==
    [type |-> type, summary |-> summary, old_value |-> old, new_value |-> new,
     plan |-> plan, confidence_score |-> conf]

\* the detector without the test of parsed.type
detectChanges_anytype(resp) ==
    IF resp.threw THEN Null
    ELSE IF resp.shape \in {"empty", "sentinel", "garbage", "json-null", "json-scalar"} THEN Null
    ELSE LET parsed == resp.obj
             confidence == ParseConfidence(parsed.confidence_score)
         IN  IF JsLess(confidence, ConfidenceGate) THEN Null
             ELSE [type |-> parsed.type.s,
                   summary |-> OrElse(parsed.summary, "Pricing change detected"),
                   old_value |-> OrElse(parsed.old_value, ""),
                   new_value |-> OrElse(parsed.new_value, ""),
                   plan |-> OrElse(parsed.plan, "Unknown"),
                   confidence_score |-> confidence]

detectChanges(resp) ==
    IF resp.threw THEN Null
    ELSE IF ~resp.fenced /\ resp.shape \in {"empty", "sentinel"} THEN Null
    ELSE IF resp.shape \in {"empty", "sentinel", "garbage"} THEN Null  \* JSON.parse throws
    ELSE IF resp.shape = "json-null" THEN Null                        \* parsed.type throws
    ELSE IF resp.shape = "json-scalar" THEN Null                      \* parsed.type is undefined
    ELSE LET parsed == resp.obj
             confidence == ParseConfidence(parsed.confidence_score)
         IN  IF parsed.type.t # "str" \/ parsed.type.s \notin validTypes THEN Null
             ELSE IF JsLess(confidence, ConfidenceGate) THEN Null
             ELSE [type |-> parsed.type.s,
                   summary |-> OrElse(parsed.summary, "Pricing change detected"),
                   old_value |-> OrElse(parsed.old_value, ""),
                   new_value |-> OrElse(parsed.new_value, ""),
                   plan |-> OrElse(parsed.plan, "Unknown"),
                   confidence_score |-> confidence]

\* the answers the service gives in the runs of the worker
RaiseObj == Obj(JStr("price_change"), JStr("Pro went up"), JStr("$29"), JStr("$39"),
                JStr("Pro"), JNum(90))
CutObj == Obj(JStr("price_change"), JStr("Pro went down"), JStr("$39"), JStr("$29"),
              JStr("Pro"), JNum(90))
UnsureObj == Obj(JStr("price_change"), JStr("Pro went up"), JStr("$29"), JStr("$39"),
                 JStr("Pro"), JNum(40))

ServiceAnswers ==
    { ServiceText(FALSE, "sentinel", Null),
      ServiceText(FALSE, "json", RaiseObj),
      ServiceText(TRUE, "json", CutObj),
      ServiceText(FALSE, "json", UnsureObj) }

\* the answers of every shape: what the service may say of one change
Shapes == {"empty", "sentinel", "garbage", "json-null", "json-scalar"}

Types == {Absent, JNull, JNum(1), JStr("plan_change")} \cup {JStr(t) : t \in validTypes}

Confidences == {Absent, JNull, JNum(-10), JNum(0), JNum(40), JNum(59), JNum(60), JNum(100),
                JNum(150), JStr("high"), JStr(""), JStr("0.4"), JStr("0.9")}

ShapedAnswers ==
    {ServiceThrows}
        \cup {ServiceText(f, sh, Null) : f \in BOOLEAN, sh \in Shapes}
        \cup {ServiceText(FALSE, "json", [RaiseObj EXCEPT !.type = t]) : t \in Types}
        \cup {ServiceText(f, "json", [RaiseObj EXCEPT !.confidence_score = c]) :
                  f \in BOOLEAN, c \in Confidences}

\* the answers that name a change, field by field
FieldAnswers ==
    {ServiceText(FALSE, "json", Obj(JStr(t), JStr("Pro changed"), JStr(old), JStr(new), plan,
                                    JNum(90))) :
        t \in {"price_change", "tier_change"}, old \in {"A", "A::B"},
        new \in {"C", "B::C"}, plan \in {JStr("Pro"), Absent}}
        \cup {ServiceText(FALSE, "json", Obj(JStr("price_change"), summary, JStr("A"), JStr("C"),
                                             JStr("Pro"), conf)) :
                  summary \in {JStr("Pro is dearer"), Absent}, conf \in {JNum(60), JStr("1")}}

----------------------------------------------------------------------------
(* worker/index.js: the idempotency helper *)

\* crypto.createHash("sha256").update(raw).digest("hex").slice(0, 32), taken to be
\* free of collisions: the digest is kept as the text it was computed from
Sha256Hex32(raw) == "sha256:" \o raw

\* a fingerprint that takes the summary in
buildChangeHash_summary(changeResult) ==
    Sha256Hex32(changeResult.type \o "::" \o changeResult.old_value \o "::"
                \o changeResult.new_value \o "::" \o changeResult.plan
                \o "::" \o changeResult.summary)

buildChangeHash(changeResult) ==
    Sha256Hex32(changeResult.type \o "::" \o changeResult.old_value \o "::"
                \o changeResult.new_value \o "::" \o changeResult.plan)

\* a gate that is never shut
isDuplicate_never(monitor, changeHash) == FALSE

\* monitor.last_change_hash && monitor.last_change_hash === changeHash
isDuplicate(monitor, changeHash) ==
    monitor.last_change_hash # NoHash /\ monitor.last_change_hash = changeHash

\* the cooldown with <= for <
InCooldown_inclusive(monitor, t) ==
    /\ monitor.last_checked_at # NoTime
    /\ t - monitor.last_checked_at <= TWENTY_FOUR_HOURS_MS

\* the cooldown test at the head of processMonitor
InCooldown(monitor, t) ==
    /\ monitor.last_checked_at # NoTime
    /\ t - monitor.last_checked_at < TWENTY_FOUR_HOURS_MS

----------------------------------------------------------------------------
(* worker/index.js: the tables *)

MonitorIds == DOMAIN monitors

MonitorRow == [last_checked_at |-> NoTime, last_change_hash |-> NoHash,
               last_change_type |-> NoType, last_meaningful_change_at |-> NoTime]

\* select * from monitors where is_active: the rows, in an order the store picks
RECURSIVE Orders(_)
Orders(ids) ==
    IF ids = {} THEN {<<>>}
    ELSE UNION {{<<i>> \o o : o \in Orders(ids \ {i})} : i \in ids}

\* a select that leaves the fingerprint column out
RowCopy_nohash(mons, i) == [id |-> i,
                            last_checked_at |-> mons[i].last_checked_at,
                            last_change_hash |-> NoHash,
                            last_change_type |-> mons[i].last_change_type,
                            last_meaningful_change_at |-> mons[i].last_meaningful_change_at]

RowCopy(mons, i) == [id |-> i,
                     last_checked_at |-> mons[i].last_checked_at,
                     last_change_hash |-> mons[i].last_change_hash,
                     last_change_type |-> mons[i].last_change_type,
                     last_meaningful_change_at |-> mons[i].last_meaningful_change_at]

\* the query with the order ascending: the oldest snapshot of the target
LatestSnapshot_oldest(snaps, id) ==
    LET own == {k \in 1..Len(snaps) : snaps[k].monitor_id = id}
    IN  IF own = {} THEN Null
        ELSE snaps[CHOOSE k \in own : \A j \in own : k <= j]

\* the query without .eq("monitor_id", id)
LatestSnapshot_anyone(snaps, id) ==
    IF snaps = <<>> THEN Null ELSE snaps[Len(snaps)]

\* from("snapshots").eq("monitor_id", id).order("fetched_at", desc).limit(1)
LatestSnapshot(snaps, id) ==
    LET own == {k \in 1..Len(snaps) : snaps[k].monitor_id = id}
    IN  IF own = {} THEN Null
        ELSE snaps[CHOOSE k \in own : \A j \in own : j <= k]

\* an insert of the text the differ compares
SnapshotRow_filtered(snaps, id, content, t) ==
    [id |-> Len(snaps) + 1, monitor_id |-> id, content |-> stripNoise(content), fetched_at |-> t]

SnapshotRow(snaps, id, content, t) ==
    [id |-> Len(snaps) + 1, monitor_id |-> id, content |-> content, fetched_at |-> t]

AlertRow(als, monitor, prevSnapshot, newSnapshot, changeResult) ==
    [id |-> Len(als) + 1,
     monitor_id |-> monitor.id,
     summary |-> changeResult.summary,
     old_snapshot_id |-> prevSnapshot.id,
     new_snapshot_id |-> newSnapshot.id,
     change_type |-> changeResult.type,
     old_value |-> changeResult.old_value,
     new_value |-> changeResult.new_value,
     plan_name |-> changeResult.plan,
     confidence_score |-> changeResult.confidence_score,
     emailed |-> FALSE]

\* the update without last_change_hash
TrackChange_keephash(row, detectedAt, changeResult, changeHash) ==
    [row EXCEPT !.last_meaningful_change_at = detectedAt,
                !.last_change_type = changeResult.type]

\* update({ last_meaningful_change_at, last_change_type, last_change_hash })
TrackChange(row, detectedAt, changeResult, changeHash) ==
    [row EXCEPT !.last_meaningful_change_at = detectedAt,
                !.last_change_type = changeResult.type,
                !.last_change_hash = changeHash]

\* a store call answers data, answers { error }, or rejects
StoreOutcomes == {"ok", "error", "throw"}
\* resend.emails.send resolves with data, resolves with { error }, or rejects
SendOutcomes == {"ok", "error", "throw"}

\* a send whose rejection goes on as a resolved one
SendRejects_never(res) == FALSE

\* await resend.emails.send(...) inside try: a rejection goes to catch (emailErr)
SendRejects(res) == res = "throw"

Step(op, res) == [op |-> op, res |-> res]

\* the step of the detector, with the answer the service gave
Heard(res, resp) == [op |-> "classify", res |-> res, resp |-> resp]

IdleRun == [pc |-> "idle", trigger |-> "none", list |-> <<>>, idx |-> 0,
            scraped |-> FALSE, newContent |-> "", prevSnapshot |-> Null, newSnapshot |-> Null,
            changeResult |-> Null, changeHash |-> NoHash, alert |-> Null,
            detectedAt |-> NoTime, outcome |-> "none"]

Monitor == run.list[run.idx]

\* a loop without the try and catch: what processMonitor throws ends the run
EndMonitor_abort(r, outcome) ==
    IF outcome = "Thrown" THEN IdleRun ELSE [r EXCEPT !.pc = "sleep", !.outcome = outcome]

\* processMonitor returns, or throws into the catch of runMonitoring: either way
\* the loop of runMonitoring goes on with the sleep
EndMonitor(r, outcome) == [r EXCEPT !.pc = "sleep", !.outcome = outcome]

\* the environment fails at most MaxFaults times
Failed(res) == IF res = "ok" THEN 0 ELSE 1
Within(n) == faults + n <= MaxFaults

----------------------------------------------------------------------------
(* The clock and the triggers *)

\* POST /api/submit registers the monitor and, when its scrape succeeds, saves
\* the baseline snapshot and stamps last_checked_at
Registered(ids, based) ==
    [i \in ids |-> IF i \in based THEN [MonitorRow EXCEPT !.last_checked_at = 0]
                   ELSE MonitorRow]

RECURSIVE Baselines(_, _)
Baselines(ids, based) ==
    IF ids = {} THEN <<>>
    ELSE LET i == CHOOSE j \in ids : \A k \in ids : j <= k
             rest == Baselines(ids \ {i}, based)
         IN  IF i \in based
             THEN <<[id |-> 1, monitor_id |-> i, content |-> ExtractText(PageA),
                     fetched_at |-> 0]>>
                  \o [k \in 1..Len(rest) |-> [rest[k] EXCEPT !.id = k + 1]]
             ELSE rest

\* the urls the users watch
Urls == <<"https://c1.io/pricing", "https://c2.io/pricing", "https://c3.io/pricing",
          "https://c4.io/pricing", "https://c5.io/pricing">>
UrlOf(i) == Urls[i]

\* the tables hold the monitors ids, those of based with the baseline of the POST
InitWith(registrations) ==
    /\ now = 0
    /\ nextCron = CronFirstMs
    /\ \E reg \in registrations :
         /\ monitors = Registered(reg.ids, reg.based)
         /\ snapshots = Baselines(reg.ids, reg.based)
    /\ alerts = <<>>
    /\ run = IdleRun
    /\ steps = <<>>
    /\ processed = <<>>
    /\ outbox = <<>>
    /\ retry = [i \in DOMAIN monitors |-> FALSE]
    /\ startups = 0
    /\ faults = 0
    /\ parked = Null
    /\ owners = [i \in DOMAIN monitors |-> [user_email |-> "a@x.io", url |-> UrlOf(i)]]
    /\ posts = <<>>
    /\ probe = Null

Registrations(idSets) ==
    UNION {{[ids |-> ids, based |-> b] : b \in SUBSET ids} : ids \in idSets}

Init == InitWith(Registrations({{1}, {1, 2}}))

\* how far the clock runs: MaxDays daily cycles after the first for one target,
\* the first cycle alone when two targets are watched
MaxNow ==
    IF Cardinality(MonitorIds) = 1 THEN MaxDays * CronPeriodMs + CronFirstMs
    ELSE CronFirstMs

NextInstant(t) == ((t \div IdleStepMs) + 1) * IdleStepMs

\* nothing runs: time passes, up to the next firing of the schedule
TickTo(limit) ==
    /\ run.pc = "idle"
    /\ now < nextCron
    /\ now < limit
    /\ now' = IF NextInstant(now) < nextCron THEN NextInstant(now) ELSE nextCron
    /\ UNCHANGED <<nextCron, monitors, snapshots, alerts, run, steps, processed,
                   outbox, retry, startups, faults, parked, owners, posts, probe>>

Tick == TickTo(MaxNow)

\* cron.schedule("0 2 * * *", () => runMonitoring()).  A run lasts seconds and
\* the runs of this specification follow one another: the schedule finds the
\* worker idle (now <= nextCron is part of TypeOK).
CronFire ==
    /\ run.pc = "idle"
    /\ now = nextCron
    /\ nextCron' = nextCron + CronPeriodMs
    /\ run' = [IdleRun EXCEPT !.pc = "select", !.trigger = "cron"]
    /\ UNCHANGED <<now, monitors, snapshots, alerts, steps, processed, outbox,
                   retry, startups, faults, parked, owners, posts, probe>>

\* the process starts with RUN_ON_START=true: one run at once, at a moment
\* when no run of the schedule is in progress
Startup ==
    /\ run.pc = "idle"
    /\ now < nextCron
    /\ startups = 0
    /\ startups' = startups + 1
    /\ run' = [IdleRun EXCEPT !.pc = "select", !.trigger = "startup"]
    /\ UNCHANGED <<now, nextCron, monitors, snapshots, alerts, steps, processed,
                   outbox, retry, faults, parked, owners, posts, probe>>

----------------------------------------------------------------------------
(* runMonitoring *)

\* 1. fetch all active monitors; on an error (or a rejection, which ends
\* runMonitoring in .catch(console.error)) the run is over
SelectMonitors ==
    /\ run.pc = "select"
    /\ \E res \in {"ok", "error"} :
         /\ Within(Failed(res))
         /\ faults' = faults + Failed(res)
         /\ IF res = "error"
            THEN run' = IdleRun
            ELSE \E order \in Orders(MonitorIds) :
                   run' = [run EXCEPT
                       !.list = [k \in 1..Len(order) |-> RowCopy(monitors, order[k])],
                       !.idx = 1,
                       !.pc = "cooldown"]
    /\ UNCHANGED <<now, nextCron, monitors, snapshots, alerts, steps, processed,
                   outbox, retry, startups, parked, owners, posts, probe>>

\* await sleep(2000), then the next monitor of the list, or the end of the run
Sleep ==
    /\ run.pc = "sleep"
    /\ now' = now + SleepMs
    /\ steps' = <<>>
    /\ IF run.idx < Len(run.list)
       THEN /\ run' = [run EXCEPT !.idx = run.idx + 1, !.pc = "cooldown", !.outcome = "none"]
            /\ UNCHANGED processed
       ELSE /\ run' = IdleRun
            /\ processed' = <<>>
    /\ UNCHANGED <<nextCron, monitors, snapshots, alerts, outbox, retry, startups, faults,
                   parked, owners, posts, probe>>

----------------------------------------------------------------------------
(* processMonitor, one action for each await *)

\* the call begins: the 24-hour cooldown, then the request for the page goes out
Cooldown ==
    /\ run.pc = "cooldown"
    /\ processed' = Append(processed, Monitor.id)
    /\ LET fresh == [run EXCEPT !.scraped = FALSE, !.newContent = "",
                                !.prevSnapshot = Null,
                                !.newSnapshot = Null, !.changeResult = Null,
                                !.changeHash = NoHash, !.alert = Null,
                                !.detectedAt = NoTime]
       IN  IF InCooldown(Monitor, now)
           THEN /\ run' = EndMonitor(fresh, "Cooldown")
                /\ steps' = <<Step("cooldown", "skip")>>
           ELSE /\ run' = [fresh EXCEPT !.pc = "fetch"]
                /\ steps' = <<Step("cooldown", "pass")>>
    /\ UNCHANGED <<now, nextCron, monitors, snapshots, alerts, outbox, retry, startups,
                   faults, parked, owners, posts, probe>>

\* 2. const newContent = await scrapePage(monitor.url)
FetchOf(results) ==
    /\ run.pc = "fetch"
    /\ \E r \in results, d \in FetchDurations :
         /\ Within(IF ScrapeFailed(r) THEN 1 ELSE 0)
         /\ faults' = faults + (IF ScrapeFailed(r) THEN 1 ELSE 0)
         /\ now' = now + d
         /\ steps' = Append(steps, Step("fetch", IF ScrapeFailed(r) THEN "error" ELSE "ok"))
         /\ IF ScrapeFailed(r)
            THEN /\ run' = EndMonitor([run EXCEPT !.scraped = r.ok, !.newContent = r.text],
                                       "FetchFailed")
                 /\ retry' = [retry EXCEPT ![Monitor.id] = TRUE]
            ELSE /\ run' = [run EXCEPT !.scraped = r.ok, !.newContent = r.text,
                                       !.pc = "readPrev"]
                 /\ retry' = [retry EXCEPT ![Monitor.id] = FALSE]
    /\ UNCHANGED <<nextCron, monitors, snapshots, alerts, processed, outbox, startups,
                   parked, owners, posts, probe>>

Fetch == FetchOf(ScrapeResults)

\* 3. get the previous snapshot; the answer's error is not looked at
ReadPrev ==
    /\ run.pc = "readPrev"
    /\ \E res \in StoreOutcomes :
         /\ Within(Failed(res))
         /\ faults' = faults + Failed(res)
         /\ steps' = Append(steps, Step("readPrev", res))
         /\ IF res = "throw"
            THEN run' = EndMonitor(run, "Thrown")
            ELSE run' = [run EXCEPT
                     !.prevSnapshot = IF res = "ok"
                                      THEN LatestSnapshot(snapshots, Monitor.id)
                                      ELSE Null,
                     !.pc = "insertSnap"]
    /\ UNCHANGED <<now, nextCron, monitors, snapshots, alerts, processed, outbox,
                   retry, startups, parked, owners, posts, probe>>

\* a save of the snapshot whose error answer is not looked at
InsertSnapshotOf_goeson(outcomes) ==
    /\ run.pc = "insertSnap"
    /\ \E res \in outcomes :
         /\ Within(Failed(res))
         /\ faults' = faults + Failed(res)
         /\ steps' = Append(steps, Step("insertSnapshot", res))
         /\ IF res = "ok"
            THEN LET row == SnapshotRow(snapshots, Monitor.id, run.newContent, now)
                 IN  /\ snapshots' = Append(snapshots, row)
                     /\ run' = [run EXCEPT !.newSnapshot = row, !.pc = "stamp"]
            ELSE /\ run' = IF res = "throw" THEN EndMonitor(run, "Thrown")
                           ELSE [run EXCEPT !.pc = "stamp"]
                 /\ UNCHANGED snapshots
    /\ UNCHANGED <<now, nextCron, monitors, alerts, processed, outbox, retry, startups,
                   parked, owners, posts, probe>>

\* 4. save the new snapshot
InsertSnapshotOf(outcomes) ==
    /\ run.pc = "insertSnap"
    /\ \E res \in outcomes :
         /\ Within(Failed(res))
         /\ faults' = faults + Failed(res)
         /\ steps' = Append(steps, Step("insertSnapshot", res))
         /\ IF res = "ok"
            THEN LET row == SnapshotRow(snapshots, Monitor.id, run.newContent, now)
                 IN  /\ snapshots' = Append(snapshots, row)
                     /\ run' = [run EXCEPT !.newSnapshot = row, !.pc = "stamp"]
            ELSE /\ run' = EndMonitor(run, IF res = "throw" THEN "Thrown" ELSE "StoreError")
                 /\ UNCHANGED snapshots
    /\ UNCHANGED <<now, nextCron, monitors, alerts, processed, outbox, retry, startups,
                   parked, owners, posts, probe>>

InsertSnapshot == InsertSnapshotOf(StoreOutcomes)

\* the stamp without if (!hasChanges) return
StampChecked_nogate ==
    /\ run.pc = "stamp"
    /\ \E res \in StoreOutcomes :
         /\ Within(Failed(res))
         /\ faults' = faults + Failed(res)
         /\ monitors' = IF res = "ok"
                        THEN [monitors EXCEPT ![Monitor.id].last_checked_at = now]
                        ELSE monitors
         /\ IF res = "throw"
            THEN /\ steps' = Append(steps, Step("stampChecked", res))
                 /\ run' = EndMonitor(run, "Thrown")
            ELSE IF run.prevSnapshot = Null
            THEN /\ steps' = Append(steps, Step("stampChecked", res))
                 /\ run' = EndMonitor(run, "BaselineNeeded")
            ELSE /\ steps' = steps \o <<Step("stampChecked", res), Step("diff", "changed")>>
                 /\ run' = [run EXCEPT !.pc = "classify"]
    /\ UNCHANGED <<now, nextCron, snapshots, alerts, processed, outbox, retry, startups,
                   parked, owners, posts, probe>>

\* a stamp that also writes the time of the last meaningful change
StampChecked_touch ==
    /\ run.pc = "stamp"
    /\ \E res \in StoreOutcomes :
         /\ Within(Failed(res))
         /\ faults' = faults + Failed(res)
         /\ monitors' = IF res = "ok"
                        THEN [monitors EXCEPT ![Monitor.id].last_checked_at = now,
                                              ![Monitor.id].last_meaningful_change_at = now]
                        ELSE monitors
         /\ IF res = "throw"
            THEN /\ steps' = Append(steps, Step("stampChecked", res))
                 /\ run' = EndMonitor(run, "Thrown")
            ELSE IF run.prevSnapshot = Null
            THEN /\ steps' = Append(steps, Step("stampChecked", res))
                 /\ run' = EndMonitor(run, "BaselineNeeded")
            ELSE IF ~compareSnapshots(run.prevSnapshot.content, run.newContent).hasChanges
            THEN /\ steps' = steps \o <<Step("stampChecked", res), Step("diff", "same")>>
                 /\ run' = EndMonitor(run, "NoTextChange")
            ELSE /\ steps' = steps \o <<Step("stampChecked", res), Step("diff", "changed")>>
                 /\ run' = [run EXCEPT !.pc = "classify"]
    /\ UNCHANGED <<now, nextCron, snapshots, alerts, processed, outbox, retry, startups,
                   parked, owners, posts, probe>>

\* stamp last_checked_at (the answer is not looked at); 5. the baseline;
\* 6. the quick diff; 7. the request to the detector goes out
StampChecked ==
    /\ run.pc = "stamp"
    /\ \E res \in StoreOutcomes :
         /\ Within(Failed(res))
         /\ faults' = faults + Failed(res)
         /\ monitors' = IF res = "ok"
                        THEN [monitors EXCEPT ![Monitor.id].last_checked_at = now]
                        ELSE monitors
         /\ IF res = "throw"
            THEN /\ steps' = Append(steps, Step("stampChecked", res))
                 /\ run' = EndMonitor(run, "Thrown")
            ELSE IF run.prevSnapshot = Null
            THEN /\ steps' = Append(steps, Step("stampChecked", res))
                 /\ run' = EndMonitor(run, "BaselineNeeded")
            ELSE IF ~compareSnapshots(run.prevSnapshot.content, run.newContent).hasChanges
            THEN /\ steps' = steps \o <<Step("stampChecked", res), Step("diff", "same")>>
                 /\ run' = EndMonitor(run, "NoTextChange")
            ELSE /\ steps' = steps \o <<Step("stampChecked", res), Step("diff", "changed")>>
                 /\ run' = [run EXCEPT !.pc = "classify"]
    /\ UNCHANGED <<now, nextCron, snapshots, alerts, processed, outbox, retry, startups,
                   parked, owners, posts, probe>>

\* a call that hands the detector the texts without their noise
DetectorArgs_cleaned(r) == <<stripNoise(r.prevSnapshot.content), stripNoise(r.newContent)>>

\* detectChanges(prevSnapshot.content, newContent): the texts the detector gets
DetectorArgs(r) == <<r.prevSnapshot.content, r.newContent>>

\* 7. the detector answers; 8. idempotency; 9. the insert of the alert goes out
ClassifyOf(answers) ==
    /\ run.pc = "classify"
    /\ \E resp \in answers :
         LET changeResult == detectChanges(resp)
             changeHash == IF changeResult = Null THEN NoHash
                           ELSE buildChangeHash(changeResult)
         IN  /\ Within(IF resp.threw THEN 1 ELSE 0)
             /\ faults' = faults + (IF resp.threw THEN 1 ELSE 0)
             /\ IF changeResult = Null
                THEN /\ steps' = Append(steps, Heard("null", resp))
                     /\ run' = EndMonitor(run, "NoMeaningfulChange")
                ELSE IF isDuplicate(Monitor, changeHash)
                THEN /\ steps' = steps \o <<Heard("change", resp),
                                            Step("dedup", "duplicate")>>
                     /\ run' = EndMonitor([run EXCEPT !.changeResult = changeResult,
                                                      !.changeHash = changeHash],
                                          "DuplicateChange")
                ELSE /\ steps' = steps \o <<Heard("change", resp),
                                            Step("dedup", "novel")>>
                     /\ run' = [run EXCEPT !.changeResult = changeResult,
                                           !.changeHash = changeHash,
                                           !.pc = "insertAlert"]
    /\ UNCHANGED <<now, nextCron, monitors, snapshots, alerts, processed, outbox,
                   retry, startups, parked, owners, posts, probe>>

Classify == ClassifyOf(ServiceAnswers \cup {ServiceThrows})

\* the insert of the alert without if (alertError) return
InsertAlert_unchecked ==
    /\ run.pc = "insertAlert"
    /\ \E res \in StoreOutcomes :
         /\ Within(Failed(res))
         /\ faults' = faults + Failed(res)
         /\ steps' = Append(steps, Step("insertAlert", res))
         /\ IF res = "ok"
            THEN LET row == AlertRow(alerts, Monitor, run.prevSnapshot,
                                     run.newSnapshot, run.changeResult)
                 IN  /\ alerts' = Append(alerts, row)
                     /\ run' = [run EXCEPT !.alert = row, !.detectedAt = now, !.pc = "send"]
            ELSE IF res = "error"
            THEN /\ run' = [run EXCEPT !.detectedAt = now, !.pc = "send"]
                 /\ UNCHANGED alerts
            ELSE /\ run' = EndMonitor(run, "Thrown")
                 /\ UNCHANGED alerts
    /\ UNCHANGED <<now, nextCron, monitors, snapshots, processed, outbox, retry, startups,
                   parked, owners, posts, probe>>

\* 9. the alert is saved; 10. the email goes out
InsertAlert ==
    /\ run.pc = "insertAlert"
    /\ \E res \in StoreOutcomes :
         /\ Within(Failed(res))
         /\ faults' = faults + Failed(res)
         /\ steps' = Append(steps, Step("insertAlert", res))
         /\ IF res = "ok"
            THEN LET row == AlertRow(alerts, Monitor, run.prevSnapshot,
                                     run.newSnapshot, run.changeResult)
                 IN  /\ alerts' = Append(alerts, row)
                     /\ run' = [run EXCEPT !.alert = row, !.detectedAt = now, !.pc = "send"]
            ELSE /\ run' = EndMonitor(run, IF res = "throw" THEN "Thrown" ELSE "StoreError")
                 /\ UNCHANGED alerts
    /\ UNCHANGED <<now, nextCron, monitors, snapshots, processed, outbox, retry, startups,
                   parked, owners, posts, probe>>

\* await resend.emails.send(...): only a rejection reaches the catch
Send ==
    /\ run.pc = "send"
    /\ \E res \in SendOutcomes :
         /\ Within(Failed(res))
         /\ faults' = faults + Failed(res)
         /\ steps' = Append(steps, Step("send", res))
         /\ outbox' = Append(outbox, [alert_id |-> run.alert.id,
                                      monitor_id |-> Monitor.id,
                                      hash |-> run.changeHash,
                                      res |-> res,
                                      stored |-> FALSE])
         /\ IF SendRejects(res)
            THEN run' = EndMonitor(run, "NotifyFailed")
            ELSE run' = [run EXCEPT !.pc = "mark"]
    /\ UNCHANGED <<now, nextCron, monitors, snapshots, alerts, processed, retry, startups,
                   parked, owners, posts, probe>>

\* await Promise.all([alerts.update({emailed: true}), monitors.update({...})]):
\* both updates go out and neither answer is looked at; an update that fails
\* (it answers { error }, or it rejects into the catch) changes nothing
MarkNotified ==
    /\ run.pc = "mark"
    /\ \E r1 \in {"ok", "error"}, r2 \in {"ok", "error"} :
         /\ Within(Failed(r1) + Failed(r2))
         /\ faults' = faults + Failed(r1) + Failed(r2)
         /\ steps' = steps \o <<Step("markEmailed", r1), Step("stampFingerprint", r2)>>
         /\ alerts' = IF r1 = "ok"
                      THEN [alerts EXCEPT ![run.alert.id].emailed = TRUE]
                      ELSE alerts
         /\ monitors' = IF r2 = "ok"
                        THEN [monitors EXCEPT ![Monitor.id] =
                                 TrackChange(@, run.detectedAt, run.changeResult, run.changeHash)]
                        ELSE monitors
         /\ outbox' = IF r2 = "ok"
                      THEN [outbox EXCEPT ![Len(outbox)].stored = TRUE]
                      ELSE outbox
         /\ run' = EndMonitor(run, "Notified")
    /\ UNCHANGED <<now, nextCron, snapshots, processed, retry, startups, parked, owners, posts, probe>>

----------------------------------------------------------------------------

Next ==
    \/ Tick
    \/ CronFire
    \/ Startup
    \/ SelectMonitors
    \/ Cooldown
    \/ Fetch
    \/ ReadPrev
    \/ InsertSnapshot
    \/ StampChecked
    \/ Classify
    \/ InsertAlert
    \/ Send
    \/ MarkNotified
    \/ Sleep

Spec == Init /\ [][Next]_vars

----------------------------------------------------------------------------
(* The cycle where every fetch and every insert of a snapshot succeeds, run by *)
(* the schedule alone, over monitors that were never checked                   *)

DailyInit == InitWith({[ids |-> {1}, based |-> {}], [ids |-> {1, 2}, based |-> {}]})

\* two firings of the schedule, 24 hours apart
DailyNow == CronPeriodMs + CronFirstMs

DailyTick == TickTo(DailyNow)

DailyFetch == FetchOf({r \in ScrapeResults : ~ScrapeFailed(r)})

DailyInsertSnapshot == InsertSnapshotOf({"ok"})

DailyNext ==
    \/ DailyTick
    \/ CronFire
    \/ SelectMonitors
    \/ Cooldown
    \/ DailyFetch
    \/ ReadPrev
    \/ DailyInsertSnapshot
    \/ StampChecked
    \/ Classify
    \/ InsertAlert
    \/ Send
    \/ MarkNotified
    \/ Sleep

SpecDaily == DailyInit /\ [][DailyNext]_vars

----------------------------------------------------------------------------
(* The page that flaps: each fetch finds the page other than the one of the    *)
(* latest snapshot, and the detector answers every change from $29 to $39 with *)
(* the same fields                                                             *)

FlapInit == InitWith(Registrations({{1}}))

FlapNow == FlapDays * CronPeriodMs + CronFirstMs

FlapTick == TickTo(FlapNow)

FlapPage ==
    LET last == LatestSnapshot(snapshots, Monitor.id)
    IN  IF last # Null /\ last.content = ExtractText(PageA) THEN PageB ELSE PageA

FlapFetch == FetchOf({[ok |-> TRUE, text |-> ExtractText(FlapPage)]})

FlapAnswers ==
    IF run.prevSnapshot.content = ExtractText(PageA) /\ run.newContent = ExtractText(PageB)
    THEN {ServiceText(FALSE, "json", RaiseObj)}
    ELSE ServiceAnswers

FlapClassify == ClassifyOf(FlapAnswers)

FlapNext ==
    \/ FlapTick
    \/ CronFire
    \/ Startup
    \/ SelectMonitors
    \/ Cooldown
    \/ FlapFetch
    \/ ReadPrev
    \/ InsertSnapshot
    \/ StampChecked
    \/ FlapClassify
    \/ InsertAlert
    \/ Send
    \/ MarkNotified
    \/ Sleep

SpecFlap == FlapInit /\ [][FlapNext]_vars

----------------------------------------------------------------------------
(* The detector: two targets with a baseline, the page of each changed when    *)
(* the schedule has them checked, and the service answering anything           *)

DetectInit == InitWith({[ids |-> {1, 2}, based |-> {1, 2}]})

DetectNow == CronPeriodMs + CronFirstMs

DetectTick == TickTo(DetectNow)

DetectFetch == FetchOf({[ok |-> TRUE, text |-> ExtractText(PageB)]})

DetectClassify == ClassifyOf(ShapedAnswers \cup FieldAnswers)

DetectNext ==
    \/ DetectTick
    \/ CronFire
    \/ SelectMonitors
    \/ Cooldown
    \/ DetectFetch
    \/ ReadPrev
    \/ InsertSnapshot
    \/ StampChecked
    \/ DetectClassify
    \/ InsertAlert
    \/ Send
    \/ MarkNotified
    \/ Sleep

SpecDetect == DetectInit /\ [][DetectNext]_vars

----------------------------------------------------------------------------
(* Two runs at once: the process starts with RUN_ON_START=true a second before *)
(* 02:00 and the schedule fires while the run of the start waits at an await.  *)
(* Nothing in worker/index.js keeps the callback of the schedule from calling  *)
(* runMonitoring() while an earlier invocation has not returned.               *)

OverlapStart == CronFirstMs - FetchMs

\* how long the await the run is at may last
AwaitMs(r) ==
    IF r.pc = "fetch" THEN AxiosTimeoutMs
    ELSE IF r.pc = "sleep" THEN SleepMs
    ELSE 0

\* the process is started a second before the schedule fires
OverlapBoot ==
    /\ run.pc = "idle"
    /\ startups = 0
    /\ now < OverlapStart
    /\ now' = OverlapStart
    /\ UNCHANGED <<nextCron, monitors, snapshots, alerts, run, steps, processed,
                   outbox, retry, startups, faults, parked, owners, posts, probe>>

\* the schedule fires while the run waits: runMonitoring() is called again and
\* the earlier invocation goes on waiting
OverlapCronFire ==
    /\ run.pc \notin {"idle", "select"}
    /\ parked = Null
    /\ now <= nextCron
    /\ nextCron <= now + AwaitMs(run)
    /\ now' = nextCron
    /\ nextCron' = nextCron + CronPeriodMs
    /\ parked' = [run |-> run, steps |-> steps, processed |-> processed]
    /\ run' = [IdleRun EXCEPT !.pc = "select", !.trigger = "cron"]
    /\ steps' = <<>>
    /\ processed' = <<>>
    /\ UNCHANGED <<monitors, snapshots, alerts, outbox, retry, startups, faults, owners, posts,
                   probe>>

\* the event loop goes on with the other invocation: the await it was at is
\* the one that resolves next; an invocation that has returned is gone
Switch ==
    /\ parked # Null
    /\ run' = parked.run
    /\ steps' = parked.steps
    /\ processed' = parked.processed
    /\ parked' = IF run.pc = "idle" THEN Null
                  ELSE [run |-> run, steps |-> steps, processed |-> processed]
    /\ UNCHANGED <<now, nextCron, monitors, snapshots, alerts, outbox, retry, startups,
                   faults, owners, posts,
                   probe>>

\* an await does not last beyond 02:00 without the schedule firing
OverlapFetch == Fetch /\ now' <= nextCron

OverlapSleep == Sleep /\ now' <= nextCron

OverlapNext ==
    \/ OverlapBoot
    \/ Startup
    \/ OverlapCronFire
    \/ Switch
    \/ SelectMonitors
    \/ Cooldown
    \/ OverlapFetch
    \/ ReadPrev
    \/ InsertSnapshot
    \/ StampChecked
    \/ Classify
    \/ InsertAlert
    \/ Send
    \/ MarkNotified
    \/ OverlapSleep

SpecOverlap == InitWith(Registrations({{1}})) /\ [][OverlapNext]_vars

----------------------------------------------------------------------------
(* The page with a footer line: the text scrapePage gives is one line, and a   *)
(* line that holds "Privacy Policy" is noise to the differ                     *)

PageFooter == "Pro\n $29\n Privacy Policy"

RawInit == InitWith(Registrations({{1}}))

RawNow == CronPeriodMs + CronFirstMs

RawTick == TickTo(RawNow)

RawFetch == FetchOf(ScrapeResults \cup {[ok |-> TRUE, text |-> ExtractText(PageFooter)]})

RawNext ==
    \/ RawTick
    \/ CronFire
    \/ Startup
    \/ SelectMonitors
    \/ Cooldown
    \/ RawFetch
    \/ ReadPrev
    \/ InsertSnapshot
    \/ StampChecked
    \/ Classify
    \/ InsertAlert
    \/ Send
    \/ MarkNotified
    \/ Sleep

SpecRaw == RawInit /\ [][RawNext]_vars

----------------------------------------------------------------------------
(* worker/diff.js and scrapePage called on their own: probe holds the texts, *)
(* the function that was applied and what it returned                        *)

MaxLines == 2

\* the lines a text is made of: blank, short, genuine, padded, noise
TextLines == <<"", " ab", "Team $99", "  Pro $29 ", "We use cookies", "Copyright 2024">>

RECURSIVE TextsOf(_)
TextsOf(n) ==
    IF n = 0 THEN {<<>>}
    ELSE {<<TextLines[k]>> \o ls : k \in 1..Len(TextLines), ls \in TextsOf(n - 1)}

\* a cookie banner, a copyright line and a price
NoisyText == "We use cookies\nCopyright 2024\n  Pro $29 "

\* eleven lines that go, each between two lines that stay
LongOld == "d01\nkeep\nd02\nkeep\nd03\nkeep\nd04\nkeep\nd05\nkeep\nd06\nkeep\nd07\nkeep\nd08\nkeep\nd09\nkeep\nd10\nkeep\nd11"
LongNew == "keep\nkeep\nkeep\nkeep\nkeep\nkeep\nkeep\nkeep\nkeep\nkeep"

\* the old and the new text of a call
TextPairs ==
    LET \* the texts of one to MaxLines lines
        texts == {JoinLines(ls) : ls \in UNION {TextsOf(n) : n \in 1..MaxLines}}
                     \cup {NoisyText}
        \* the texts a text is compared with
        others == {"Pro $29", "Pro $39\nWe use cookies", "ab\nTeam $99\nPro $29"}
    IN  {<<a, b>> : a \in texts, b \in others}
            \cup {<<a, a>> : a \in texts}
            \cup {<<LongOld, LongNew>>, <<LongNew, LongOld>>}

DiffInit ==
    /\ now = 0
    /\ nextCron = CronFirstMs
    /\ monitors = <<>>
    /\ snapshots = <<>>
    /\ alerts = <<>>
    /\ run = IdleRun
    /\ steps = <<>>
    /\ processed = <<>>
    /\ outbox = <<>>
    /\ retry = <<>>
    /\ startups = 0
    /\ faults = 0
    /\ parked = Null
    /\ owners = <<>>
    /\ posts = <<>>
    /\ \E pair \in TextPairs :
         probe = [fn |-> "none", old |-> pair[1], new |-> pair[2], fetched |-> FALSE,
                  out |-> Null]

ProbeFrame ==
    UNCHANGED <<now, nextCron, monitors, snapshots, alerts, run, steps, processed,
                outbox, retry, startups, faults, parked, owners, posts>>

\* scrapePage gives both texts, the element texts being probe.old and probe.new
ProbeScrape ==
    /\ probe.fn = "none"
    /\ ~probe.fetched
    /\ ExtractText(probe.old) # ""
    /\ ExtractText(probe.new) # ""
    /\ probe' = [probe EXCEPT !.old = ExtractText(probe.old),
                               !.new = ExtractText(probe.new),
                               !.fetched = TRUE]
    /\ ProbeFrame

ProbeStrip ==
    /\ probe.fn = "none"
    /\ probe' = [probe EXCEPT !.fn = "stripNoise", !.out = stripNoise(probe.old)]
    /\ ProbeFrame

\* stripNoise applied to what stripNoise returned
ProbeStripAgain ==
    /\ probe.fn = "stripNoise"
    /\ probe' = [probe EXCEPT !.fn = "stripNoise(stripNoise)", !.new = probe.out,
                               !.out = stripNoise(probe.out)]
    /\ ProbeFrame

ProbeCompare ==
    /\ probe.fn = "none"
    /\ probe' = [probe EXCEPT !.fn = "compareSnapshots",
                               !.out = compareSnapshots(probe.old, probe.new)]
    /\ ProbeFrame

ProbeContext ==
    /\ probe.fn = "none"
    /\ \E maxChars \in {0, 12, DefaultMaxChars} :
         probe' = [probe EXCEPT !.fn = "buildDiffContext",
                                !.out = [maxChars |-> maxChars] @@
                                        buildDiffContext(probe.old, probe.new, maxChars)]
    /\ ProbeFrame

DiffNext ==
    \/ ProbeScrape
    \/ ProbeStrip
    \/ ProbeStripAgain
    \/ ProbeCompare
    \/ ProbeContext

SpecDiff == DiffInit /\ [][DiffNext]_vars

----------------------------------------------------------------------------
(* POST /api/submit (app/api/submit/route.ts) with lib/safety/monitorLimits.ts: *)
(* posts holds the requests, each with the await its handler has reached       *)

MaxPosts == 2

EMAIL_MONITOR_LIMIT == 3

GLOBAL_MONITOR_CAP == 500

\* select count(*) from monitors where user_email = email
checkEmailMonitorLimit(email) ==
    LET total == Cardinality({i \in DOMAIN owners : owners[i].user_email = email})
    IN  [limited |-> total >= EMAIL_MONITOR_LIMIT, count |-> total]

\* select count(*) from monitors
checkGlobalMonitorCapacity ==
    LET total == Len(owners)
    IN  [limited |-> total >= GLOBAL_MONITOR_CAP, count |-> total]

\* a request arrives; one without an email is answered 400 at once
PostReceive ==
    /\ Len(posts) < MaxPosts
    /\ \E email \in {"", "a@x.io", "b@x.io"}, url \in {UrlOf(1), UrlOf(4), UrlOf(5)} :
         posts' = Append(posts, [email |-> email, url |-> url, monitor |-> 0,
                                 pc |-> IF email = "" THEN "done" ELSE "globalCheck",
                                 status |-> IF email = "" THEN 400 ELSE 0])
    /\ UNCHANGED <<now, nextCron, monitors, snapshots, alerts, run, steps, processed,
                   outbox, retry, startups, faults, parked, owners, probe>>

\* await checkGlobalMonitorCapacity(): it throws when the store reports an error
PostGlobalCheck(k) ==
    /\ posts[k].pc = "globalCheck"
    /\ \E ok \in BOOLEAN :
         posts' = [posts EXCEPT ![k] =
                      IF ~ok THEN [@ EXCEPT !.pc = "done", !.status = 500]
                      ELSE IF checkGlobalMonitorCapacity.limited
                           THEN [@ EXCEPT !.pc = "done", !.status = 503]
                      ELSE [@ EXCEPT !.pc = "emailCheck"]]
    /\ UNCHANGED <<now, nextCron, monitors, snapshots, alerts, run, steps, processed,
                   outbox, retry, startups, faults, parked, owners, probe>>

\* await checkEmailMonitorLimit(email)
PostEmailCheck(k) ==
    /\ posts[k].pc = "emailCheck"
    /\ \E ok \in BOOLEAN :
         posts' = [posts EXCEPT ![k] =
                      IF ~ok THEN [@ EXCEPT !.pc = "done", !.status = 500]
                      ELSE IF checkEmailMonitorLimit(posts[k].email).limited
                           THEN [@ EXCEPT !.pc = "done", !.status = 403]
                      ELSE [@ EXCEPT !.pc = "duplicateCheck"]]
    /\ UNCHANGED <<now, nextCron, monitors, snapshots, alerts, run, steps, processed,
                   outbox, retry, startups, faults, parked, owners, probe>>

\* select id where user_email = email and url = url, .single(): a row when
\* exactly one matches and the store reports no error, else null
PostDuplicateCheck(k) ==
    /\ posts[k].pc = "duplicateCheck"
    /\ \E ok \in BOOLEAN :
         LET matches == {i \in DOMAIN owners : /\ owners[i].user_email = posts[k].email
                                               /\ owners[i].url = posts[k].url}
             existing == ok /\ Cardinality(matches) = 1
         IN  posts' = [posts EXCEPT ![k] =
                          IF existing THEN [@ EXCEPT !.pc = "done", !.status = 409]
                          ELSE [@ EXCEPT !.pc = "insert"]]
    /\ UNCHANGED <<now, nextCron, monitors, snapshots, alerts, run, steps, processed,
                   outbox, retry, startups, faults, parked, owners, probe>>

\* insert into monitors
PostInsert(k) ==
    /\ posts[k].pc = "insert"
    /\ \E ok \in BOOLEAN :
         IF ok
         THEN /\ owners' = Append(owners, [user_email |-> posts[k].email,
                                           url |-> posts[k].url])
              /\ monitors' = Append(monitors, MonitorRow)
              /\ retry' = Append(retry, FALSE)
              /\ posts' = [posts EXCEPT ![k].pc = "baseline",
                                        ![k].monitor = Len(owners) + 1]
         ELSE /\ posts' = [posts EXCEPT ![k].pc = "done", ![k].status = 500]
              /\ UNCHANGED <<owners, monitors, retry>>
    /\ UNCHANGED <<now, nextCron, snapshots, alerts, run, steps, processed,
                   outbox, startups, faults, parked, probe>>

\* the initial baseline scrape: a snapshot and last_checked_at when there is content
PostBaseline(k) ==
    /\ posts[k].pc = "baseline"
    /\ \E r \in ScrapeResults :
         IF ScrapeFailed(r)
         THEN UNCHANGED <<snapshots, monitors>>
         ELSE /\ snapshots' = Append(snapshots,
                                     SnapshotRow(snapshots, posts[k].monitor, r.text, now))
              /\ monitors' = [monitors EXCEPT ![posts[k].monitor].last_checked_at = now]
    /\ posts' = [posts EXCEPT ![k].pc = "confirm"]
    /\ UNCHANGED <<now, nextCron, alerts, run, steps, processed,
                   outbox, retry, startups, faults, parked, owners, probe>>

\* the confirmation email, then 201 whatever became of it
PostConfirm(k) ==
    /\ posts[k].pc = "confirm"
    /\ posts' = [posts EXCEPT ![k].pc = "done", ![k].status = 201]
    /\ UNCHANGED <<now, nextCron, monitors, snapshots, alerts, run, steps, processed,
                   outbox, retry, startups, faults, parked, owners, probe>>

SubmitNext ==
    \/ PostReceive
    \/ \E k \in DOMAIN posts : PostGlobalCheck(k)
    \/ \E k \in DOMAIN posts : PostEmailCheck(k)
    \/ \E k \in DOMAIN posts : PostDuplicateCheck(k)
    \/ \E k \in DOMAIN posts : PostInsert(k)
    \/ \E k \in DOMAIN posts : PostBaseline(k)
    \/ \E k \in DOMAIN posts : PostConfirm(k)

\* the table holds two or three monitors of a@x.io, each with its baseline
SpecSubmit ==
    InitWith({[ids |-> 1..n, based |-> 1..n] : n \in 2..3}) /\ [][SubmitNext]_vars

----------------------------------------------------------------------------
(* What the claims speak of *)

\* the steps op of the current processMonitor call, and their results
Did(op) == \E k \in 1..Len(steps) : steps[k].op = op
DidWith(op, res) == \E k \in 1..Len(steps) : steps[k].op = op /\ steps[k].res = res

\* the row of the target being processed, as the store holds it
Stored == monitors[Monitor.id]

\* the change-tracking columns of a row
Tracking(row) == <<row.last_change_hash, row.last_change_type, row.last_meaningful_change_at>>

\* the fingerprint of the change an alert records
AlertHash(a) ==
    buildChangeHash([type |-> a.change_type, old_value |-> a.old_value,
                     new_value |-> a.new_value, plan |-> a.plan_name])

\* the alerts and the sends of the current processMonitor call
AlertsOfCall == {k \in 1..Len(alerts) : alerts[k].new_snapshot_id = run.newSnapshot.id}
SendsOfCall == {k \in 1..Len(outbox) : outbox[k].alert_id \in AlertsOfCall}

InCall == run.pc \notin {"idle", "select"}

\* the store operations of processMonitor that C9 names
StoreOps == {"readPrev", "insertSnapshot", "stampChecked", "insertAlert"}

\* every store operation of the current call was accepted
StoreOk ==
    \A k \in 1..Len(steps) :
        steps[k].op \in StoreOps \cup {"markEmailed", "stampFingerprint"} => steps[k].res = "ok"

\* the store holds no snapshot of the target but the one this call inserted
NoPriorSnapshot ==
    \A k \in 1..Len(snapshots) : snapshots[k].monitor_id = Monitor.id => k = run.newSnapshot.id

\* the alert records the change of the page from $29 to $39
IsRaise(a) ==
    /\ snapshots[a.old_snapshot_id].content = ExtractText(PageA)
    /\ snapshots[a.new_snapshot_id].content = ExtractText(PageB)

----------------------------------------------------------------------------
(* C1 *)

\* C1. Duplicate suppression: when the fingerprint of the change just classified
\* equals the fingerprint the store holds for the target, the call returns at
\* once: no alert is inserted, nothing is sent and the row of the target stays
\* as it is.  Hence no alert is ever inserted, and no email ever sent, for a
\* fingerprint that is the one the store holds for the target at that moment.
C1_DuplicateSuppressed ==
    [][ /\ (run.pc = "classify" /\ run'.changeHash # NoHash
                /\ run'.changeHash = Stored.last_change_hash)
            => /\ run'.pc = "sleep"
               /\ alerts' = alerts
               /\ outbox' = outbox
               /\ monitors' = monitors
        /\ Len(alerts') > Len(alerts)
            => LET a == alerts'[Len(alerts')]
               IN  AlertHash(a) # monitors[a.monitor_id].last_change_hash
        /\ Len(outbox') > Len(outbox)
            => LET e == outbox'[Len(outbox')]
               IN  e.hash # monitors[e.monitor_id].last_change_hash ]_vars

\* a call has ended at the gate: the change it classified was the stored one
C1_Witness ==
    /\ run.pc = "sleep"
    /\ run.outcome = "DuplicateChange"
    /\ run.changeHash = Stored.last_change_hash

----------------------------------------------------------------------------
(* C2 *)

----------------------------------------------------------------------------
(* C3 *)

\* C3, as the specification has it: while the page flaps between $29 and $39
\* and the detector answers every change from $29 to $39 alike, that change
\* gets an alert at most once and an email at most once.
C3_FlapNotifiedOnce ==
    \A m \in MonitorIds :
        /\ Cardinality({k \in 1..Len(alerts) :
                            alerts[k].monitor_id = m /\ IsRaise(alerts[k])}) <= 1
        /\ Cardinality({k \in 1..Len(outbox) :
                            outbox[k].monitor_id = m /\ IsRaise(alerts[outbox[k].alert_id])}) <= 1

\* C3, as the code has it: the store keeps the last fingerprint alone.  Of two
\* emails for one target with one fingerprint, either the fingerprint of the
\* first was not stored, or between them an email with another fingerprint was
\* sent and its fingerprint stored: a change already reported is reported
\* again once another change has been reported after it.
C3_RenotifiedAfterAnother ==
    \A i, j \in 1..Len(outbox) :
        (/\ i < j
         /\ outbox[i].monitor_id = outbox[j].monitor_id
         /\ outbox[i].hash = outbox[j].hash
         /\ outbox[i].stored)
            => \E k \in (i + 1)..(j - 1) :
                   /\ outbox[k].monitor_id = outbox[i].monitor_id
                   /\ outbox[k].stored
                   /\ outbox[k].hash # outbox[i].hash

\* the change from $29 to $39 was reported, its fingerprint stored, and it is
\* reported again
C3_Witness ==
    \E i, j \in 1..Len(outbox) :
        /\ i < j
        /\ outbox[i].monitor_id = outbox[j].monitor_id
        /\ outbox[i].hash = outbox[j].hash
        /\ outbox[i].stored
        /\ IsRaise(alerts[outbox[i].alert_id])
        /\ IsRaise(alerts[outbox[j].alert_id])

----------------------------------------------------------------------------
(* C4 *)

----------------------------------------------------------------------------
(* C5 *)

\* C5. Cooldown: a target whose last check is less than 24 hours before now is
\* skipped: the call returns with no fetch and no write to the store.  A target
\* whose last check is 24 hours ago or more, or that was never checked, goes on
\* to the fetch.
C5_Cooldown ==
    [][ run.pc = "cooldown"
            => IF /\ Stored.last_checked_at # NoTime
                  /\ now - Stored.last_checked_at < 24 * 60 * 60 * 1000
               THEN /\ run'.pc = "sleep"
                    /\ steps' = <<Step("cooldown", "skip")>>
                    /\ now' = now
                    /\ monitors' = monitors
                    /\ snapshots' = snapshots
                    /\ alerts' = alerts
                    /\ outbox' = outbox
               ELSE run'.pc = "fetch" ]_vars

\* a target checked less than 24 hours ago has been skipped
C5_Witness ==
    /\ run.pc = "sleep"
    /\ run.outcome = "Cooldown"
    /\ now - Stored.last_checked_at < 24 * 60 * 60 * 1000

----------------------------------------------------------------------------
(* C6 *)

\* C6. Checks run daily: when the schedule alone starts the cycles, 24 hours
\* apart, and every fetch and every insert of a snapshot succeeds, every
\* target handed to processMonitor goes on to the fetch in every cycle.
C6_CheckedEveryCycle ==
    [][ (run.pc = "cooldown" /\ run.trigger = "cron") => run'.pc = "fetch" ]_vars

\* a target checked in the cycle of the day before is skipped in the cycle of
\* today
C6_Witness ==
    /\ run.pc = "sleep"
    /\ run.trigger = "cron"
    /\ run.outcome = "Cooldown"
    /\ Stored.last_checked_at >= nextCron - 2 * CronPeriodMs

----------------------------------------------------------------------------
(* C7 *)

\* C7. Baseline: when the store holds no earlier snapshot of the target, the
\* call has saved the fetched text as a snapshot of the target, stamps
\* last_checked_at and returns: the text is not compared, the detector is not
\* called, no alert is inserted, nothing is sent and the fingerprint, the
\* change type and the time of the last change stay, whatever the text is.
C7_Baseline ==
    [][ (run.pc = "stamp" /\ NoPriorSnapshot)
            => /\ run.newSnapshot.id \in 1..Len(snapshots)
               /\ snapshots[run.newSnapshot.id].monitor_id = Monitor.id
               /\ snapshots[run.newSnapshot.id].content = run.newContent
               /\ snapshots' = snapshots
               /\ run'.pc = "sleep"
               /\ run'.outcome \in {"BaselineNeeded", "Thrown"}
               /\ steps'[Len(steps')].op = "stampChecked"
               /\ steps'[Len(steps')].res = "ok"
                    => monitors'[Monitor.id].last_checked_at = now
               /\ ~\E k \in 1..Len(steps') : steps'[k].op \in {"diff", "classify", "send"}
               /\ alerts' = alerts
               /\ outbox' = outbox
               /\ Tracking(monitors'[Monitor.id]) = Tracking(Stored) ]_vars

\* the first snapshot of a target has been saved and the call has returned
C7_Witness ==
    /\ run.pc = "sleep"
    /\ run.outcome = "BaselineNeeded"
    /\ NoPriorSnapshot
    /\ Stored.last_checked_at = now

----------------------------------------------------------------------------
(* C8 *)

\* C8. A failed fetch changes nothing: when scrapePage gives null, the call
\* returns with no snapshot inserted, last_checked_at not stamped, no alert and
\* no email; and the next call for that target passes the cooldown and goes on
\* to the fetch.
C8_FetchFailure ==
    [][ /\ (run.pc = "fetch" /\ ~run'.scraped)
            => /\ run'.pc = "sleep"
               /\ snapshots' = snapshots
               /\ monitors' = monitors
               /\ alerts' = alerts
               /\ outbox' = outbox
        /\ (run.pc = "cooldown" /\ retry[Monitor.id]) => run'.pc = "fetch" ]_vars

\* the page of a target whose last fetch failed is being fetched again
C8_Witness ==
    /\ run.pc = "fetch"
    /\ retry[Monitor.id]

----------------------------------------------------------------------------
(* C9 *)

\* C9. Persistence errors abort the target: when the read of the latest
\* snapshot, the insert of the snapshot, the stamp of last_checked_at or the
\* insert of the alert fails, it is the last step of the call; after a failed
\* read no snapshot is inserted.
C9_StoreFailureAborts ==
    \A k \in 1..Len(steps) :
        (steps[k].op \in StoreOps /\ steps[k].res # "ok") => k = Len(steps)

\* the read of the latest snapshot failed, and the call has saved a snapshot
\* and returned as for a baseline although the store holds an earlier snapshot
C9_Witness ==
    /\ run.pc = "sleep"
    /\ run.outcome = "BaselineNeeded"
    /\ DidWith("readPrev", "error")
    /\ DidWith("insertSnapshot", "ok")
    /\ ~NoPriorSnapshot

----------------------------------------------------------------------------
(* C10 *)

\* C10. Batch isolation: in a run, the targets handed to processMonitor are the
\* rows the select returned, each once and in their order; whatever a call
\* ends with (a failed fetch, a store error, an answer the detector rejects,
\* an exception), the run goes on with the next row, and it ends only after
\* the last one.
C10_BatchIsolation ==
    [][ /\ InCall'
            => processed' = [k \in 1..(IF run'.pc = "cooldown" THEN run'.idx - 1
                                                              ELSE run'.idx)
                                |-> run'.list[k].id]
        /\ (InCall /\ InCall') => run'.list = run.list
        /\ (InCall /\ run'.pc # run.pc /\ run.pc # "sleep" /\ run'.pc = "sleep")
            => run'.idx = run.idx
        /\ (run.pc = "sleep" /\ run.idx < Len(run.list))
            => (run'.pc = "cooldown" /\ run'.idx = run.idx + 1)
        /\ (InCall /\ ~InCall')
            => (run.pc = "sleep" /\ run.idx = Len(run.list)
                /\ Len(processed) = Len(run.list)) ]_vars

\* the fetch of the first row failed and the second row is being processed
C10_Witness ==
    /\ Len(run.list) = 2
    /\ run.idx = 2
    /\ run.pc = "readPrev"
    /\ retry[run.list[1].id]
    /\ processed = <<run.list[1].id, run.list[2].id>>

----------------------------------------------------------------------------
(* C11 *)

\* the steps of processMonitor, in the order of the code
StepOrder == <<"cooldown", "fetch", "readPrev", "insertSnapshot", "stampChecked", "diff",
               "classify", "dedup", "insertAlert", "send", "markEmailed",
               "stampFingerprint">>

Rank(op) == CHOOSE r \in 1..Len(StepOrder) : StepOrder[r] = op

\* C11. Step order: the steps of a call occur in the order fetch, save the
\* snapshot, stamp last_checked_at, diff, classify, save the alert, send,
\* stamp the fingerprint.  The send is not made before the alert of the call is
\* in the store, and the fingerprint of the target is not written before the
\* send was made.
C11_StepOrder ==
    /\ \A i, j \in 1..Len(steps) : i < j => Rank(steps[i].op) < Rank(steps[j].op)
    /\ (InCall /\ (run.pc = "send" \/ Did("send")))
            => /\ DidWith("insertAlert", "ok")
               /\ run.alert # Null
               /\ run.alert.id \in 1..Len(alerts)
               /\ alerts[run.alert.id].monitor_id = Monitor.id
               /\ alerts[run.alert.id].new_snapshot_id = run.newSnapshot.id
    /\ (InCall /\ ~Did("send")) => Tracking(Stored) = Tracking(Monitor)
    /\ \A k \in 1..Len(outbox) : outbox[k].alert_id \in 1..Len(alerts)

\* a call has gone through every step
C11_Witness ==
    /\ run.pc = "sleep"
    /\ [k \in 1..Len(steps) |-> steps[k].op] = StepOrder
    /\ Stored.last_change_hash = run.changeHash

----------------------------------------------------------------------------
(* C12 *)

\* compareSnapshots finds a change between the previous snapshot of the call
\* and the snapshot the call saved
TextChanged ==
    /\ run.prevSnapshot # Null
    /\ compareSnapshots(run.prevSnapshot.content, run.newSnapshot.content).hasChanges

\* C12. The differ is the gate: the detector is called in a call only when
\* compareSnapshots(previous snapshot, new snapshot) gave hasChanges = true;
\* when it gave false the call ends with no call of the detector, no alert and
\* no email.
C12_DifferGate ==
    [][ /\ (run'.pc = "classify" /\ run.pc # "classify")
            => /\ run.pc = "stamp"
               /\ TextChanged
               /\ snapshots[run.prevSnapshot.id] = run.prevSnapshot
               /\ snapshots[run.newSnapshot.id] = run.newSnapshot
        /\ (\E k \in 1..Len(steps') : steps'[k].op = "classify") /\ ~Did("classify")
            => run.pc = "classify"
        /\ (run.pc = "stamp" /\ run.prevSnapshot # Null /\ ~TextChanged)
            => /\ run'.pc = "sleep"
               /\ ~\E k \in 1..Len(steps') :
                      steps'[k].op \in {"classify", "insertAlert", "send"}
               /\ alerts' = alerts
               /\ outbox' = outbox
        /\ (Len(alerts') > Len(alerts) \/ Len(outbox') > Len(outbox))
            => Did("classify") ]_vars

\* a call has found the text of the page as it was and has returned
C12_Witness ==
    /\ run.pc = "sleep"
    /\ run.outcome = "NoTextChange"
    /\ run.prevSnapshot # Null
    /\ ~TextChanged
    /\ Stored.last_checked_at = now

----------------------------------------------------------------------------
(* C13 *)

\* the answer the detector got in the current call
HeardStep == steps[CHOOSE k \in 1..Len(steps) : steps[k].op = "classify"]

\* the answer parses to a record whose kind is one of the four
ValidRecord(resp) ==
    /\ ~resp.threw
    /\ resp.shape = "json"
    /\ resp.obj.type.t = "str"
    /\ resp.obj.type.s \in {"price_change", "tier_change", "feature_change", "copy_change"}

\* the confidence of the record is missing, is not a number, or is below 0.6
ConfidenceMissing(v) == v.t \in {"absent", "null"}
ConfidenceNotNumeric(v) == v.t = "str" /\ ParseFloatStr(v.s) = NaN
ConfidenceLow(v) ==
    \/ v.t = "num" /\ v.n < 60
    \/ v.t = "str" /\ ParseFloatStr(v.s) # NaN /\ ParseFloatStr(v.s) < 60

\* C13. Confidence gate: when the answer parses to a record with a valid kind
\* and its confidence_score is missing, is not numeric (a string that is not a
\* number) or is below 0.6, detectChanges gives null: the call ends with no
\* change.
C13_ConfidenceGate ==
    (InCall /\ Did("classify") /\ ValidRecord(HeardStep.resp))
        => LET v == HeardStep.resp.obj.confidence_score
           IN  (ConfidenceMissing(v) \/ ConfidenceNotNumeric(v) \/ ConfidenceLow(v))
                   => /\ HeardStep.res = "null"
                      /\ run.changeResult = Null
                      /\ run.outcome = "NoMeaningfulChange"

\* the service gave a confidence that is not a number, detectChanges gave a
\* change whose confidence is NaN, and the email of the change was sent
C13_Witness ==
    /\ InCall
    /\ Did("classify")
    /\ ValidRecord(HeardStep.resp)
    /\ ConfidenceNotNumeric(HeardStep.resp.obj.confidence_score)
    /\ run.changeResult # Null
    /\ run.changeResult.confidence_score = NaN
    /\ DidWith("send", "ok")

----------------------------------------------------------------------------
(* C14 *)

\* the outcomes of the service that name no change: an error of the transport,
\* an empty text, the sentinel, a text that does not parse with or without
\* fences, a value that is not a record, a kind that is not one of the four
NoChangeOutcome(resp) ==
    \/ resp.threw
    \/ resp.shape \in {"empty", "sentinel", "garbage", "json-null", "json-scalar"}
    \/ /\ resp.shape = "json"
       /\ ~(/\ resp.obj.type.t = "str"
            /\ resp.obj.type.s \in {"price_change", "tier_change", "feature_change",
                                      "copy_change"})

\* C14. detectChanges does not raise and degrades to null: for every outcome of
\* the service that names no change it gives null to processMonitor, which
\* returns (nothing reaches the catch of runMonitoring); and the service is
\* called at most once in a call.
C14_DegradesToNull ==
    /\ Cardinality({k \in 1..Len(steps) : steps[k].op = "classify"}) <= 1
    /\ (InCall /\ Did("classify") /\ NoChangeOutcome(HeardStep.resp))
            => /\ HeardStep.res = "null"
               /\ run.changeResult = Null
               /\ run.pc = "sleep"
               /\ run.outcome = "NoMeaningfulChange"
               /\ steps[Len(steps)].op = "classify"

\* the service answered a kind that is not one of the four and the call has
\* returned
C14_Witness ==
    /\ run.pc = "sleep"
    /\ Did("classify")
    /\ HeardStep.resp.shape = "json"
    /\ HeardStep.resp.obj.type = JStr("plan_change")
    /\ run.outcome = "NoMeaningfulChange"

----------------------------------------------------------------------------
(* C15 *)

\* a confidence that is a number of [0, 1], in hundredths
InUnitInterval(c) == c # NaN /\ 0 <= c /\ c <= 100

\* C15. The confidence of every change detectChanges gives, and so of every
\* alert in the store, is a number within [0, 1].
C15_ConfidenceInRange ==
    /\ run.changeResult # Null => InUnitInterval(run.changeResult.confidence_score)
    /\ \A k \in 1..Len(alerts) : InUnitInterval(alerts[k].confidence_score)

\* the service gave the confidence 1.5 and the alert in the store has it
C15_Witness ==
    /\ InCall
    /\ Did("classify")
    /\ HeardStep.resp.shape = "json"
    /\ HeardStep.resp.obj.confidence_score = JNum(150)
    /\ run.alert # Null
    /\ alerts[run.alert.id].confidence_score = 150

----------------------------------------------------------------------------
(* C16 *)

\* the fields of a change that its fingerprint is made of, as the alert has them
Semantic(a) == <<a.change_type, a.old_value, a.new_value, a.plan_name>>

\* the alert an email was sent for
Reported(k) == alerts[outbox[k].alert_id]

\* C16. The fingerprint tells changes apart: two changes that differ in the
\* kind, the old value, the new value or the plan have different fingerprints
\* (the digest taken to be free of collisions), also when a value holds the
\* delimiter "::".
C16_FingerprintDistinguishes ==
    \A i, j \in 1..Len(outbox) :
        Semantic(Reported(i)) # Semantic(Reported(j)) => outbox[i].hash # outbox[j].hash

\* two changes with different old and new values were reported with one
\* fingerprint
C16_Witness ==
    \E i, j \in 1..Len(outbox) :
        /\ Reported(i).old_value # Reported(j).old_value
        /\ Reported(i).new_value # Reported(j).new_value
        /\ outbox[i].hash = outbox[j].hash

----------------------------------------------------------------------------
(* C17 *)

\* the change an alert records, as detectChanges gave it
ChangeOf(a) ==
    [type |-> a.change_type, summary |-> a.summary, old_value |-> a.old_value,
     new_value |-> a.new_value, plan |-> a.plan_name, confidence_score |-> a.confidence_score]

\* C17. The fingerprint depends on the kind, the old value, the new value and
\* the plan alone: two changes that agree in these have the same fingerprint,
\* whatever their summaries and confidences are, and the fingerprint of a
\* change computed again is the same.
C17_FingerprintSemanticOnly ==
    /\ \A i, j \in 1..Len(outbox) :
           Semantic(Reported(i)) = Semantic(Reported(j)) => outbox[i].hash = outbox[j].hash
    /\ \A i \in 1..Len(outbox) : outbox[i].hash = buildChangeHash(ChangeOf(Reported(i)))

\* two changes that agree in the four fields and differ in the summary and in
\* the confidence were reported with one fingerprint
C17_Witness ==
    \E i, j \in 1..Len(outbox) :
        /\ i # j
        /\ Semantic(Reported(i)) = Semantic(Reported(j))
        /\ Reported(i).summary # Reported(j).summary
        /\ Reported(i).confidence_score # Reported(j).confidence_score
        /\ outbox[i].hash = outbox[j].hash

----------------------------------------------------------------------------
(* C18 *)

\* C18. The sent flag tracks delivery: an alert has emailed = true only if a
\* send for it delivered the message; a send that failed, by throwing or by
\* resolving with an error, leaves emailed = false.
C18_SentFlagTracksDelivery ==
    /\ \A a \in 1..Len(alerts) :
           alerts[a].emailed
               => \E k \in 1..Len(outbox) : outbox[k].alert_id = a /\ outbox[k].res = "ok"
    /\ \A k \in 1..Len(outbox) :
           outbox[k].res # "ok" => ~alerts[outbox[k].alert_id].emailed

\* the send resolved with an error and the alert has emailed = true
C18_Witness ==
    \E k \in 1..Len(outbox) :
        /\ outbox[k].res = "error"
        /\ alerts[outbox[k].alert_id].emailed

----------------------------------------------------------------------------
(* C19 *)

\* the number of scrapePage calls that have not returned
FetchesInFlight ==
    (IF run.pc = "fetch" THEN 1 ELSE 0)
        + (IF parked # Null /\ parked.run.pc = "fetch" THEN 1 ELSE 0)

\* C19. At most one fetch in flight: whenever the schedule fires and however
\* the run made at the start of the process goes, at most one scrapePage call
\* is waiting for its page at any moment.
C19_OneFetchInFlight == FetchesInFlight <= 1

\* the run of the start and the run of the schedule both wait for a page
C19_Witness ==
    /\ parked # Null
    /\ run.pc = "fetch"
    /\ parked.run.pc = "fetch"
    /\ {run.trigger, parked.run.trigger} = {"startup", "cron"}

----------------------------------------------------------------------------
(* C20 *)

\* C20. Snapshots store the raw text: the content of every snapshot that
\* processMonitor inserts is the text scrapePage gave in that call, and not
\* what stripNoise makes of it; the rows the table holds stay as they are.
C20_SnapshotsRaw ==
    [][ snapshots' # snapshots
            => LET row == snapshots'[Len(snapshots')]
               IN  /\ run.pc = "insertSnap"
                   /\ snapshots' = Append(snapshots, row)
                   /\ row.monitor_id = Monitor.id
                   /\ run.scraped
                   /\ row.content = run.newContent
                   /\ stripNoise(run.newContent) # run.newContent
                        => row.content # stripNoise(run.newContent) ]_vars

\* a snapshot was saved with a text that stripNoise would change
C20_Witness ==
    /\ run.pc = "stamp"
    /\ snapshots[run.newSnapshot.id].content = run.newContent
    /\ run.newContent = ExtractText(PageFooter)
    /\ stripNoise(run.newContent) # run.newContent

----------------------------------------------------------------------------
(* C21 *)

\* C21. The detector gets cleaned text: the two texts handed to detectChanges
\* in a call are what stripNoise makes of the previous and of the new snapshot.
C21_DetectorGetsCleaned ==
    run.pc = "classify"
        => DetectorArgs(run) = <<stripNoise(snapshots[run.prevSnapshot.id].content),
                                 stripNoise(snapshots[run.newSnapshot.id].content)>>

\* The detector gets the texts of the two snapshots, as they are in the store.
C21_DetectorGetsRaw ==
    run.pc = "classify"
        => DetectorArgs(run) = <<snapshots[run.prevSnapshot.id].content,
                                 snapshots[run.newSnapshot.id].content>>

\* the detector is asked about a new text that stripNoise would change
C21_Witness ==
    /\ run.pc = "classify"
    /\ DetectorArgs(run)[2] = ExtractText(PageFooter)
    /\ DetectorArgs(run)[2] # stripNoise(snapshots[run.newSnapshot.id].content)

----------------------------------------------------------------------------
(* The noise filter, the differ and the page fetcher on their own (SpecDiff) *)

\* the lines of a text, the empty text having none
LinesOf(text) == IF text = "" THEN <<>> ELSE SplitLines(text)

\* the lines of a text whose trimmed form has three characters or more and
\* matches no noise pattern
KeptLines(text) ==
    SelectSeq(SplitLines(text), LAMBDA line :
        /\ Len(Trim(line)) >= 3
        /\ \A k \in 1..Len(NOISE_PATTERNS) :
               \A alt \in NOISE_PATTERNS[k] : ~RegexTest(alt, Trim(line)))

\* lines without the white space before the first and after the last of them
EdgeTrimmed(ls) ==
    [k \in 1..Len(ls) |->
        IF k = 1 /\ k = Len(ls) THEN Trim(ls[k])
        ELSE IF k = 1 THEN TrimStart(ls[k])
        ELSE IF k = Len(ls) THEN TrimEnd(ls[k])
        ELSE ls[k]]

\* C22: clean is idempotent: stripNoise applied to what stripNoise returned
\* gives that text again, for every text of blank, short, noise and padded lines
C22_CleanIdempotent ==
    probe.fn = "stripNoise(stripNoise)" => probe.out = probe.new

C22_Witness ==
    /\ probe.fn = "stripNoise(stripNoise)"
    /\ probe.old = NoisyText
    /\ probe.new = "Pro $29"
    /\ probe.out = "Pro $29"

\* C23 as stated: the lines of clean(T) are exactly the lines of T that are
\* not noise, in their order
C23_KeepsExactLines ==
    [][probe'.fn = "stripNoise" => LinesOf(probe'.out) = KeptLines(probe'.old)]_vars

\* C23 amended: the lines of clean(T) are the lines of T that are not noise, in
\* their order, the first without its leading and the last without its
\* trailing white space; no line is added or reordered
C23_KeepsTrimmedLines ==
    [][probe'.fn = "stripNoise"
          => LinesOf(probe'.out) = EdgeTrimmed(KeptLines(probe'.old))]_vars

C23_Witness ==
    /\ probe.fn = "stripNoise"
    /\ probe.old = NoisyText
    /\ probe.out = "Pro $29"

\* C24: compare is reflexive: a text compared with itself has nothing added,
\* nothing removed and hasChanges = false
C24_CompareReflexive ==
    probe.fn = "compareSnapshots" /\ probe.old = probe.new
        => probe.out = [added |-> <<>>, removed |-> <<>>, hasChanges |-> FALSE]

C24_Witness ==
    /\ probe.fn = "compareSnapshots"
    /\ probe.old = NoisyText
    /\ probe.new = NoisyText
    /\ ~probe.out.hasChanges

\* p is the beginning of str
IsPrefix(p, str) == Len(p) <= Len(str) /\ SubSeq(str, 1, Len(p)) = p

\* the blocks removed under REMOVED: and then the blocks added under ADDED:
Listing(removed, added) ==
    (IF Len(removed) > 0 THEN "REMOVED:\n" \o JoinLines(removed) \o "\n\n" ELSE "")
    \o (IF Len(added) > 0 THEN "ADDED:\n" \o JoinLines(added) ELSE "")

\* what C25 says of the result out of buildContext(old, new, out.maxChars)
ContextOk(old, new, out) ==
    LET c == compareSnapshots(old, new)
        r == IF Len(c.removed) < 10 THEN Len(c.removed) ELSE 10
        a == IF Len(c.added) < 10 THEN Len(c.added) ELSE 10
        listing == Listing(SubSeq(c.removed, 1, r), SubSeq(c.added, 1, a))
    IN  /\ out.null <=> ~c.hasChanges
        /\ ~out.null =>
              /\ Len(out.text) <= out.maxChars
              /\ IsPrefix(out.text, listing)
              /\ Len(out.text) = out.maxChars \/ out.text = listing

\* C25: buildContext is null exactly when compare finds no change; otherwise
\* it is a string of at most maxChars characters, the beginning of the listing
\* of at most 10 removed blocks under REMOVED: and then at most 10 added blocks
\* under ADDED:
C25_ContextNullOrBounded ==
    [][probe'.fn = "buildDiffContext" => ContextOk(probe'.old, probe'.new, probe'.out)]_vars

C25_Witness ==
    /\ probe.fn = "buildDiffContext"
    /\ probe.old = LongOld
    /\ probe.new = LongNew
    /\ probe.out.maxChars = DefaultMaxChars
    /\ ~probe.out.null
    /\ Len(probe.out.text) = 50

\* the text holds a match of some noise pattern
HasNoise(text) ==
    \E k \in 1..Len(NOISE_PATTERNS) : \E alt \in NOISE_PATTERNS[k] : RegexTest(alt, text)

OneLine(text) == \A i \in 1..Len(text) : SubSeq(text, i, i) # "\n"

\* C29: a text that scrapePage returned holds no line break, and when both
\* fetched texts hold a match of a noise pattern compare reports no change,
\* whatever else differs between them
C29_FetchedTextOneLine ==
    probe.fetched =>
        /\ OneLine(probe.old)
        /\ OneLine(probe.new)
        /\ probe.fn = "compareSnapshots" /\ HasNoise(probe.old) /\ HasNoise(probe.new)
              => ~probe.out.hasChanges

C29_Witness ==
    /\ probe.fetched
    /\ probe.fn = "compareSnapshots"
    /\ probe.old = "Team $99 We use cookies"
    /\ probe.new = "Pro $39 We use cookies"
    /\ ~probe.out.hasChanges

\* the monitors stored for the email
MonitorsOf(email) == {i \in DOMAIN owners : owners[i].user_email = email}

\* C26. Per-email monitor limit: whatever the order and the interleaving of the
\* POST /api/submit requests, no email address has more than 3 monitors stored
C26_EmailLimit ==
    \A i \in DOMAIN owners : Cardinality(MonitorsOf(owners[i].user_email)) <= EMAIL_MONITOR_LIMIT

\* two requests of an address with two monitors were both answered 201
C26_Witness ==
    /\ Len(posts) = 2
    /\ \A k \in 1..2 : posts[k].email = "a@x.io" /\ posts[k].status = 201
    /\ posts[1].url = UrlOf(4)
    /\ posts[2].url = UrlOf(5)
    /\ Cardinality(MonitorsOf("a@x.io")) = EMAIL_MONITOR_LIMIT + 1

\* the outcomes of a call that notify nobody
QuietOutcomes == {"Cooldown", "FetchFailed", "BaselineNeeded", "NoTextChange",
                  "NoMeaningfulChange", "DuplicateChange"}

\* C27. A call that ends in Cooldown, FetchFailed, BaselineNeeded, NoTextChange,
\* NoMeaningfulChange or DuplicateChange leaves the fingerprint, the change
\* type and the time of the last meaningful change of the target as they were
\* and leaves the alerts as they were: the alerts change only where a call
\* inserts or marks its alert, the three columns only where it stamps the
\* fingerprint, and a call with such an outcome has made none of these steps
C27_QuietOutcomesFrame ==
    [][ /\ (run.pc # "sleep" /\ run'.pc = "sleep" /\ run'.outcome \in QuietOutcomes)
            => /\ Tracking(monitors'[Monitor.id]) = Tracking(Monitor)
               /\ alerts' = alerts
               /\ \A k \in 1..Len(steps') :
                      steps'[k].op \notin {"insertAlert", "markEmailed", "stampFingerprint"}
        /\ alerts' # alerts
            => \E k \in (Len(steps) + 1)..Len(steps') :
                  steps'[k].op \in {"insertAlert", "markEmailed"}
        /\ (\E i \in DOMAIN monitors : Tracking(monitors'[i]) # Tracking(monitors[i]))
            => \E k \in (Len(steps) + 1)..Len(steps') : steps'[k].op = "stampFingerprint" ]_vars

\* a call of a target that has a fingerprint and an alert ended without a
\* meaningful change
C27_Witness ==
    /\ run.pc = "sleep"
    /\ run.outcome = "NoMeaningfulChange"
    /\ Stored.last_change_hash # NoHash
    /\ \E k \in 1..Len(alerts) : alerts[k].monitor_id = Monitor.id

\* a step of the kind op is made
Makes(op) == \E k \in (Len(steps) + 1)..Len(steps') : steps'[k].op = op

\* the pair the call holds: the new snapshot is the row this call inserted, the
\* newest of the store, and the previous snapshot is the row of the target
\* next before it, so no earlier call, which would have inserted a row of the
\* target after the previous snapshot, has compared against it
FreshPair ==
    LET own == {k \in 1..Len(snapshots) : snapshots[k].monitor_id = Monitor.id}
    IN  /\ DidWith("insertSnapshot", "ok")
        /\ run.newSnapshot = snapshots[Len(snapshots)]
        /\ run.newSnapshot.monitor_id = Monitor.id
        /\ run.prevSnapshot \in {snapshots[k] : k \in own}
        /\ run.prevSnapshot.id < run.newSnapshot.id
        /\ \A k \in own : k <= run.prevSnapshot.id \/ k = run.newSnapshot.id

\* C28. A pair (previous snapshot, new snapshot) is diffed and classified in
\* at most one call: the new snapshot is saved before the diff, so the pair a
\* call diffs and classifies is the row it has just inserted and the row of
\* the target next before it; rows are never removed, so after a call that
\* ended in a null classification, a failed alert insert or a failed send, a
\* later call compares against the row that call inserted, not the older one
C28_PairOnce ==
    [][ /\ Len(snapshots') >= Len(snapshots)
        /\ SubSeq(snapshots', 1, Len(snapshots)) = snapshots
        /\ Makes("diff") => FreshPair
        /\ Makes("classify")
            => /\ FreshPair
               /\ DidWith("diff", "changed")
               /\ run.pc = "classify" ]_vars

\* a later call has diffed the row that a call with a failed notification
\* inserted against the row it has inserted itself
C28_Witness ==
    /\ run.pc = "classify"
    /\ DidWith("diff", "changed")
    /\ \E k \in 1..Len(alerts) :
          /\ alerts[k].monitor_id = Monitor.id
          /\ ~alerts[k].emailed
          /\ alerts[k].new_snapshot_id = run.prevSnapshot.id
          /\ alerts[k].old_snapshot_id < run.prevSnapshot.id

\* the steps of the kind op that the call has made after this step
Times(op) == Cardinality({k \in 1..Len(steps') : steps'[k].op = op})

\* C30. The last-checked time of a target is stamped only in a call that has
\* inserted a new snapshot of that target; a call inserts at most one
\* snapshot and at most one alert and calls the detector and the notifier at
\* most once, and a run holds a target at most once
C30_StampNeedsSnapshot ==
    [][ /\ \A i \in DOMAIN monitors :
              monitors'[i].last_checked_at # monitors[i].last_checked_at
              => /\ InCall
                 /\ i = Monitor.id
                 /\ DidWith("insertSnapshot", "ok")
                 /\ run.newSnapshot = snapshots[Len(snapshots)]
                 /\ run.newSnapshot.monitor_id = i
                 /\ Makes("stampChecked")
        /\ Makes("stampChecked") => DidWith("insertSnapshot", "ok")
        /\ \A op \in {"insertSnapshot", "insertAlert", "classify", "send"} : Times(op) <= 1
        /\ Len(snapshots') <= Len(snapshots) + 1
        /\ Len(snapshots') > Len(snapshots) => Makes("insertSnapshot")
        /\ Len(alerts') <= Len(alerts) + 1
        /\ Len(alerts') > Len(alerts) => Makes("insertAlert")
        /\ Len(outbox') <= Len(outbox) + 1
        /\ Len(outbox') > Len(outbox) => Makes("send")
        /\ \A a, b \in DOMAIN run'.list : run'.list[a].id = run'.list[b].id => a = b ]_vars

\* a call that notified has stamped the target with one snapshot, one alert,
\* one classification and one send
C30_Witness ==
    /\ run.pc = "sleep"
    /\ run.outcome = "Notified"
    /\ DidWith("insertSnapshot", "ok")
    /\ DidWith("stampChecked", "ok")
    /\ Stored.last_checked_at = run.newSnapshot.fetched_at
    /\ Did("classify") /\ Did("insertAlert") /\ Did("send")

----------------------------------------------------------------------------

TypeOK ==
    /\ now >= 0
    /\ now <= nextCron
    /\ run.pc \in {"idle", "select", "cooldown", "fetch", "readPrev", "insertSnap",
                   "stamp", "classify", "insertAlert", "send", "mark", "sleep"}
    /\ startups \in {0, 1}
    /\ faults \in 0..MaxFaults

====
